---- MODULE Spec2Model ----
(***************************************************************************)
(* SoarchainObserver: the ingestion pipeline of internal/blockchain/       *)
(* websocket.go (BlockReader: Connect, ReadBlocks, handleReconnection,     *)
(* processMessage, parseEarnings, upsertEpochEarnings) over the tables of  *)
(* internal/models (clients, client_earnings, epoch_earnings).             *)
(*                                                                         *)
(* Strings whose characters the code inspects (the earnings string) are    *)
(* sequences of one-character strings. Go's int64 is modelled as a signed  *)
(* word of IntBits bits with the same wrap-around and the same range        *)
(* errors; TLC's own integers are 32 bits wide, so the word is scaled.     *)
(***************************************************************************)
EXTENDS Integers, Sequences, FiniteSets, TLC

(***************************************************************************)
(* Bounds of the model.                                                    *)
(***************************************************************************)
\* width of the signed word that stands for Go's int64
IntBits == 22
\* message.client_data elements delivered over the whole run
MaxElems == 2
\* failures the environment injects over the whole run: of the transport
\* (read, dial, subscription write), of the epoch endpoint, of the database
MaxFailures == 2
\* length of the part of an "earnings" string that precedes its suffixes
MaxBodyLen == 3

\* the most elements one message carries
MaxBatch == MaxElems + 1

MaxInt64 == 2^(IntBits - 1) - 1
MinInt64 == -(2^(IntBits - 1))
MaxUint64 == 2^IntBits - 1

\* Go's two's-complement wrap-around of an int64 sum
Wrap64(x) == ((x - MinInt64) % (2^IntBits)) + MinInt64

(***************************************************************************)
(* Character strings.                                                      *)
(***************************************************************************)
DigitChars == <<"0", "1", "2", "3", "4", "5", "6", "7", "8", "9">>

IsDigit(c) == \E d \in 1..10 : DigitChars[d] = c

DigitVal(c) == (CHOOSE d \in 1..10 : DigitChars[d] = c) - 1

\* the decimal numeral of a natural number, as strconv would print it
RECURSIVE ToDigits(_)
ToDigits(n) == IF n < 10 THEN <<DigitChars[n + 1]>>
               ELSE Append(ToDigits(n \div 10), DigitChars[(n % 10) + 1])

usoar == <<"u", "s", "o", "a", "r">>

\* strings.HasSuffix
HasSuffix(s, suffix) ==
    /\ Len(s) >= Len(suffix)
    /\ SubSeq(s, Len(s) - Len(suffix) + 1, Len(s)) = suffix

\* strings.TrimSuffix: s without the trailing suffix, or s itself
TrimSuffix(s, suffix) ==
    IF HasSuffix(s, suffix) THEN SubSeq(s, 1, Len(s) - Len(suffix)) ELSE s

(***************************************************************************)
(* strconv.ParseUint(s, 10, 64) and strconv.ParseInt(s, 10, 64), as        *)
(* parseEarnings uses them.  A result is [err |-> BOOLEAN, val |-> Int].   *)
(***************************************************************************)
ParseErr == [err |-> TRUE, val |-> 0]

\* the digit loop of ParseUint: n is the value read so far, k the next index
RECURSIVE ParseUintLoop(_, _, _)
ParseUintLoop(s, k, n) ==
    IF k > Len(s) THEN [err |-> FALSE, val |-> n]
    ELSE IF ~IsDigit(s[k]) THEN ParseErr
    ELSE IF n * 10 + DigitVal(s[k]) > MaxUint64 THEN ParseErr
    ELSE ParseUintLoop(s, k + 1, n * 10 + DigitVal(s[k]))

ParseUint(s) == IF s = <<>> THEN ParseErr ELSE ParseUintLoop(s, 1, 0)

ParseInt(s) ==
    IF s = <<>> THEN ParseErr
    ELSE LET neg == s[1] = "-"
             signed == s[1] = "+" \/ s[1] = "-"
             un == ParseUint(IF signed THEN Tail(s) ELSE s)
         IN  IF un.err THEN ParseErr
             ELSE IF ~neg /\ un.val > MaxInt64 THEN ParseErr
             ELSE IF neg /\ un.val > MaxInt64 + 1 THEN ParseErr
             ELSE [err |-> FALSE, val |-> IF neg THEN -un.val ELSE un.val]

\* a slip: every trailing "usoar" is removed, not one
RECURSIVE TrimAllSuffixes(_)
TrimAllSuffixes(s) ==
    IF HasSuffix(s, usoar) THEN TrimAllSuffixes(TrimSuffix(s, usoar)) ELSE s

parseEarnings_mutTrimAll(earningsStr) ==
    LET r == ParseInt(TrimAllSuffixes(earningsStr))
    IN  IF r.err THEN 0 ELSE r.val

\* parseEarnings removes the "usoar" suffix and converts to int64; 0 on error
parseEarnings(earningsStr) ==
    LET r == ParseInt(TrimSuffix(earningsStr, usoar))
    IN  IF r.err THEN 0 ELSE r.val

(***************************************************************************)
(* What the feed and the epoch endpoint can send.                          *)
(***************************************************************************)
Addresses == {"A1", "A2"}

Payload(address, earnings, pubkey, solana) ==
    [kind |-> "payload", Address |-> address, Earnings |-> earnings,
     PubKey |-> pubkey, SolanaAddress |-> solana]

\* the per-client payloads of the feed.  A1 is seen with the usual numeral,
\* with the largest numeral an int64 holds and with a negative one, under two
\* public keys, with and without an embedded "solanaAddress" ("" = not
\* there); A2 is a second client that embeds no "solanaAddress" either
PayloadElems ==
    { Payload("A1", ToDigits(1000000) \o usoar, "PK1", ""),
      Payload("A1", ToDigits(MaxInt64) \o usoar, "PK2", "S1"),
      Payload("A1", <<"-", "5">> \o usoar, "PK1", "S1"),
      Payload("A2", ToDigits(1000000) \o usoar, "PK2", "") }

\* one element of events["message.client_data"]: a JSON value that is not a
\* string, a string that is not the JSON of a payload, or a payload
NonStringElem ==
    [kind |-> "nonstring", Address |-> "", Earnings |-> <<>>, PubKey |-> "",
     SolanaAddress |-> ""]
BadJSONElem ==
    [kind |-> "badjson", Address |-> "", Earnings |-> <<>>, PubKey |-> "",
     SolanaAddress |-> ""]
Elems == PayloadElems \cup {NonStringElem, BadJSONElem}

\* one element of events["solana_address"]: a string or some other JSON value
SolanaElems == {[isString |-> TRUE, val |-> "S2"], [isString |-> FALSE, val |-> ""]}

\* events["solana_address"] as the type assertion of processMessage leaves it:
\* nil (length 0) when the key is absent or no list
SolanaLists == {<<>>} \cup {<<e>> : e \in SolanaElems}

SeqsUpTo(S, n) == UNION {[1..k -> S] : k \in 0..n}

NoList == <<>>
BadShapes == {"invalid_json", "no_result", "no_events", "no_client_data"}
\* the messages that carry at most n elements
MessagesUpTo(n) ==
    [shape : BadShapes, clientData : {NoList}, solana : {NoList}]
    \cup [shape : {"ok"}, clientData : SeqsUpTo(Elems, n), solana : SolanaLists]

NoMsg == [shape |-> "none", clientData |-> NoList, solana |-> NoList]

\* EpochInfo, as getCurrentEpoch returns it (times in seconds)
EpochInfos ==
    [Identifier : {"day"}, Duration : {86400}, CurrentEpoch : {5, 6},
     CurrentEpochStart : {1000}]
NoEpoch == [Identifier |-> "", Duration |-> 0, CurrentEpoch |-> 0, CurrentEpochStart |-> 0]

(***************************************************************************)
(* The state.                                                              *)
(***************************************************************************)
VARIABLES
    pc,          \* where the ingestion goroutine stands
    started,     \* ReadBlocks has been entered
    conns,       \* every transport ever dialled: [open, subs, query]
    conn,        \* Connect's local conn (0 = none)
    brConn,      \* BlockReader.Conn (0 = nil)
    failBudget,  \* failures the environment may still inject
    elemBudget,  \* message.client_data elements the feed may still deliver
    nElems,      \* message.client_data elements received so far
    msg,         \* the message last returned by ReadMessage
    epochInfo,   \* processMessage's epochInfo
    idx,         \* processMessage's loop index i (1-based)
    ev,          \* the locals of the loop body for element i
    tx,          \* the open transaction's view of the tables
    db,          \* the committed tables
    clock,       \* time.Now(), one tick per event, never the zero time
    log,         \* history: one entry per transaction begun, with its outcome
    request,     \* the query API request being served
    response     \* the answer the handler wrote for it

vars == <<pc, started, conns, conn, brConn, failBudget, elemBudget, nElems, msg, epochInfo,
          idx, ev, tx, db, clock, log, request, response>>

connVars == <<conns, conn, brConn>>
msgVars == <<elemBudget, nElems, msg, epochInfo, idx, ev>>
storeVars == <<tx, db, log>>
apiVars == <<request, response>>

EmptyTables == [clients |-> {}, client_earnings |-> {}, epoch_earnings |-> {}]
NoTx == [active |-> FALSE, tables |-> EmptyTables]
NoRequest == [wallet |-> ""]
NoResponse == [code |-> 0, status |-> "", issues |-> <<>>]
NoEv == [Address |-> "", PubKey |-> "", SolanaAddress |-> "", solanaAddress |-> "",
         earningsValue |-> 0, timestamp |-> 0]

\* the process at its start, in an environment that will fail at most
\* failures times and deliver at most elements elements
InitWith(failures, elements) ==
    /\ pc = "init"
    /\ started = FALSE
    /\ conns = <<>>
    /\ conn = 0
    /\ brConn = 0
    /\ failBudget = failures
    /\ elemBudget = elements
    /\ nElems = 0
    /\ msg = NoMsg
    /\ epochInfo = NoEpoch
    /\ idx = 0
    /\ ev = NoEv
    /\ tx = NoTx
    /\ db = EmptyTables
    /\ clock = 1
    /\ log = <<>>
    /\ request = NoRequest
    /\ response = NoResponse

Init == InitWith(MaxFailures, MaxElems)

(***************************************************************************)
(* Connection: NewBlockReader, Connect, ReadBlocks, handleReconnection.    *)
(***************************************************************************)
\* NewBlockReader builds the reader and calls Connect
NewBlockReader ==
    /\ pc = "init"
    /\ pc' = "dial"
    /\ UNCHANGED <<started, connVars, failBudget, msgVars, storeVars, clock, apiVars>>

\* a slip: a failed Connect always ends the reader
AfterConnectError_mutGiveUp == "exited"

\* where a failed Connect leaves the goroutine: NewBlockReader returns the
\* error and main ends the process; handleReconnection logs it and goes back
\* to the top of its loop, where it sleeps before the next Connect
AfterConnectError == IF started THEN "reconnect" ELSE "exited"

\* no subscription written on the transport yet
NoQuery == [event |-> "", action |-> ""]

\* a slip: br.Conn is set as soon as the transport is dialled
Dial_mutAssignEarly ==
    /\ pc = "dial"
    /\ \/ /\ failBudget > 0
          /\ failBudget' = failBudget - 1
          /\ pc' = AfterConnectError
          /\ UNCHANGED <<conns, conn, brConn>>
       \/ /\ conns' = Append(conns, [open |-> TRUE, subs |-> 0, query |-> NoQuery])
          /\ conn' = Len(conns) + 1
          /\ brConn' = Len(conns) + 1
          /\ pc' = "subscribe"
          /\ UNCHANGED failBudget
    /\ UNCHANGED <<started, msgVars, storeVars, clock, apiVars>>

\* Connect, first half: websocket.DefaultDialer.Dial
Dial ==
    /\ pc = "dial"
    /\ \/ /\ failBudget > 0
          /\ failBudget' = failBudget - 1
          /\ pc' = AfterConnectError
          /\ UNCHANGED <<conns, conn, brConn>>
       \/ /\ conns' = Append(conns, [open |-> TRUE, subs |-> 0, query |-> NoQuery])
          /\ conn' = Len(conns) + 1
          /\ pc' = "subscribe"
          /\ UNCHANGED <<brConn, failBudget>>
    /\ UNCHANGED <<started, msgVars, storeVars, clock, apiVars>>

\* a slip: the error is returned with the transport left as dialled
CloseOnWriteError_mutLeaveOpen(cs, c) == cs

\* conn.Close() on the error path of conn.WriteMessage
CloseOnWriteError(cs, c) == [cs EXCEPT ![c].open = FALSE]

\* the "query" of subscribeMsg: tm.event='Tx' AND message.action='runner_challenge'
SubscribeQuery == [event |-> "Tx", action |-> "runner_challenge"]

\* a slip: Connect succeeds without the subscription having been written
WriteSubscription_mutSkip(cs, c) == cs

\* conn.WriteMessage(websocket.TextMessage, []byte(subscribeMsg)) went through
WriteSubscription(cs, c) == [cs EXCEPT ![c].subs = @ + 1, ![c].query = SubscribeQuery]

\* Connect, second half: conn.WriteMessage(subscribeMsg); br.Conn = conn
Subscribe ==
    /\ pc = "subscribe"
    /\ \/ /\ failBudget > 0
          /\ failBudget' = failBudget - 1
          /\ conns' = CloseOnWriteError(conns, conn)
          /\ conn' = 0
          /\ pc' = AfterConnectError
          /\ UNCHANGED brConn
       \/ /\ conns' = WriteSubscription(conns, conn)
          /\ brConn' = conn
          /\ conn' = 0
          /\ pc' = "subscribed"
          /\ UNCHANGED failBudget
    /\ UNCHANGED <<started, msgVars, storeVars, clock, apiVars>>

\* Connect returned nil: main starts ReadBlocks, or handleReconnection
\* breaks and ReadBlocks continues with the next ReadMessage
EnterReadLoop ==
    /\ pc = "subscribed"
    /\ started' = TRUE
    /\ pc' = "read"
    /\ UNCHANGED <<connVars, failBudget, msgVars, storeVars, clock, apiVars>>

\* a slip: ReadBlocks returns the read error to its caller
AfterReadError_mutReturn == "returned"

\* where ReadBlocks goes when ReadMessage returns an error
AfterReadError == "reconnect"

\* br.Conn.ReadMessage() fails: handleReconnection is entered
ReadError ==
    /\ pc = "read"
    /\ failBudget > 0
    /\ failBudget' = failBudget - 1
    /\ pc' = AfterReadError
    /\ UNCHANGED <<started, connVars, msgVars, storeVars, clock, apiVars>>

\* handleReconnection, the top of its loop: time.Sleep, then Connect
HandleReconnection ==
    /\ pc = "reconnect"
    /\ pc' = "dial"
    /\ UNCHANGED <<started, connVars, failBudget, msgVars, storeVars, clock, apiVars>>

(***************************************************************************)
(* The tables, as gorm reads and writes them.                              *)
(***************************************************************************)
\* tx.First(&client, "address = ?", address): the rows that match
ClientsAt(tables, address) == {c \in tables.clients : c.Address = address}

\* clients.address is the primary key: an insert of a present key fails
ClientKeyTaken(tables, address) == ClientsAt(tables, address) # {}

\* tx.Create(&client)
ClientCreate(tables, row) == [tables EXCEPT !.clients = @ \cup {row}]

\* tx.Save(&client): every column of the row with this primary key is rewritten
ClientSave(tables, row) ==
    [tables EXCEPT !.clients = (@ \ ClientsAt(tables, row.Address)) \cup {row}]

\* a slip: one row per client key, the insert replacing the one before
EarningCreate_mutUpsert(tables, row) ==
    [tables EXCEPT !.client_earnings =
        {r \in @ : r.ClientAddress # row.ClientAddress} \cup {row}]

\* tx.Create(&clientEarning)
EarningCreate(tables, row) == [tables EXCEPT !.client_earnings = @ \cup {row}]

\* tx.Where("client_address = ? AND epoch_number = ?").First: the rows that match
EpochsAt(tables, clientAddress, epochNumber) ==
    {e \in tables.epoch_earnings :
        e.ClientAddress = clientAddress /\ e.EpochNumber = epochNumber}

\* the id the table's sequence gives a new row (ids are unique and increase)
NextID(rows) == Cardinality(rows) + 1

\* First orders by primary key and takes the first row
FirstByID(rows) == CHOOSE r \in rows : \A q \in rows : r.ID <= q.ID

(***************************************************************************)
(* processMessage, the loop body for one element.                          *)
(***************************************************************************)
\* what indexing a list beyond its end does to the goroutine
IndexOutOfRange == "panic: index out of range"

\* a slip: the list is indexed without looking at its length
PositionalSolana_mutNoLengthCheck(solanaAddressList, i) ==
    IF i \notin DOMAIN solanaAddressList THEN IndexOutOfRange
    ELSE IF solanaAddressList[i].isString THEN solanaAddressList[i].val ELSE ""

\* lines 235-238: solanaAddressList[i].(string) when the list is long enough
\* (i counts from 1 here); the failed type assertion leaves ""
PositionalSolana(solanaAddressList, i) ==
    IF Len(solanaAddressList) > i - 1
    THEN IF solanaAddressList[i].isString THEN solanaAddressList[i].val ELSE ""
    ELSE ""

\* a slip: the positional value wins over the embedded one
ResolveSolana_mutPositionalWins(solanaAddressList, i, embedded) ==
    LET positional == PositionalSolana(solanaAddressList, i)
    IN  IF positional # "" THEN positional ELSE embedded

\* lines 234-242: the positional value, overridden by the embedded one
ResolveSolana(solanaAddressList, i, embedded) ==
    LET positional == PositionalSolana(solanaAddressList, i)
    IN  IF embedded # "" THEN embedded ELSE positional

\* a slip: the loop runs over the list from its end
RangeIndex_mutReverse(m, i) == Len(m.clientData) + 1 - i

\* line 216, "for i, clientDataInterface := range clientDataList": the index
\* the loop is at in its i-th iteration
RangeIndex(m, i) == i

\* the element the loop visits in its i-th iteration
ElementAt(m, i) == m.clientData[RangeIndex(m, i)]

\* a slip: a bad element ends the loop ("return" for "continue")
AfterContinue_mutReturn(m, i) == Len(m.clientData) + 1

\* lines 219 and 231, "continue": the iteration that follows a skipped element
AfterContinue(m, i) == i + 1

\* an element the loop applies: a string that unmarshals into clientData
Parseable(e) == e.kind = "payload"

\* the locals of the loop body once the element is decoded
Decode(m, i, now) ==
    LET e == ElementAt(m, i)
    IN  [Address |-> e.Address, PubKey |-> e.PubKey, SolanaAddress |-> e.SolanaAddress,
         solanaAddress |-> ResolveSolana(m.solana, RangeIndex(m, i), e.SolanaAddress),
         earningsValue |-> parseEarnings(e.Earnings), timestamp |-> now]

\* a slip: the row is keyed by the public key
NewClient_mutKey(e) ==
    [Address |-> e.PubKey, PubKey |-> e.PubKey, SolanaAddress |-> e.solanaAddress,
     TotalLifetimeEarnings |-> e.earningsValue, LastChallengeTime |-> e.timestamp]

\* lines 256-262: the row of a client seen for the first time
NewClient(e) ==
    [Address |-> e.Address, PubKey |-> e.PubKey, SolanaAddress |-> e.solanaAddress,
     TotalLifetimeEarnings |-> e.earningsValue, LastChallengeTime |-> e.timestamp]

\* a slip: the time of the last challenge is set at creation only
UpdatedClient_mutKeepTime(client, e) ==
    [client EXCEPT
        !.TotalLifetimeEarnings = Wrap64(@ + e.earningsValue),
        !.SolanaAddress = IF e.solanaAddress # "" THEN e.solanaAddress ELSE @]

\* a slip: the resolved address is stored whether or not it is empty
UpdatedClient_mutOverwrite(client, e) ==
    [client EXCEPT
        !.TotalLifetimeEarnings = Wrap64(@ + e.earningsValue),
        !.SolanaAddress = e.solanaAddress,
        !.LastChallengeTime = e.timestamp]

\* lines 276-280: the row of a known client after the event
UpdatedClient(client, e) ==
    [client EXCEPT
        !.TotalLifetimeEarnings = Wrap64(@ + e.earningsValue),
        !.SolanaAddress = IF e.solanaAddress # "" THEN e.solanaAddress ELSE @,
        !.LastChallengeTime = e.timestamp]

\* line 252-255: tx.First found the client
ClientFound(tables, e) == ClientsAt(tables, e.Address) # {}

\* line 290: the key of the ClientEarning row
EarningKey(e) == e.SolanaAddress

\* line 303: the key of the epoch row
EpochKey(e) == e.SolanaAddress

\* lines 289-293: the ClientEarning row
NewEarning(id, e) ==
    [ID |-> id, ClientAddress |-> EarningKey(e), Earnings |-> e.earningsValue,
     Timestamp |-> e.timestamp]

\* a slip: the lookup never finds the row and every event inserts one
EpochFound_mutNever(tables, clientAddress, epochNumber) == FALSE

\* lines 339-342: First found an epoch row for (clientAddress, epochNumber)
EpochFound(tables, clientAddress, epochNumber) ==
    EpochsAt(tables, clientAddress, epochNumber) # {}

\* a slip: the window of a row that exists is derived again from epochInfo
upsertEpochEarnings_mutRederive(tables, clientAddress, earningsValue, epoch, now) ==
    LET epochNumber == epoch.CurrentEpoch
        startTime == epoch.CurrentEpochStart
        endTime == startTime + epoch.Duration
    IN  IF ~EpochFound(tables, clientAddress, epochNumber)
        THEN [tables EXCEPT !.epoch_earnings = @ \cup
                 {[ID |-> NextID(tables.epoch_earnings), ClientAddress |-> clientAddress,
                   EpochNumber |-> epochNumber, StartTime |-> startTime,
                   EndTime |-> endTime, TotalEarnings |-> earningsValue,
                   CreatedAt |-> now, UpdatedAt |-> now]}]
        ELSE LET epochRecord == FirstByID(EpochsAt(tables, clientAddress, epochNumber))
             IN  [tables EXCEPT !.epoch_earnings = (@ \ {epochRecord}) \cup
                     {[epochRecord EXCEPT
                         !.StartTime = startTime,
                         !.EndTime = endTime,
                         !.TotalEarnings = Wrap64(@ + earningsValue),
                         !.UpdatedAt = now]}]

\* upsertEpochEarnings, lines 334-367, when no statement fails
upsertEpochEarnings(tables, clientAddress, earningsValue, epoch, now) ==
    LET epochNumber == epoch.CurrentEpoch
        startTime == epoch.CurrentEpochStart
        endTime == startTime + epoch.Duration
    IN  IF ~EpochFound(tables, clientAddress, epochNumber)
        THEN [tables EXCEPT !.epoch_earnings = @ \cup
                 {[ID |-> NextID(tables.epoch_earnings), ClientAddress |-> clientAddress,
                   EpochNumber |-> epochNumber, StartTime |-> startTime,
                   EndTime |-> endTime, TotalEarnings |-> earningsValue,
                   CreatedAt |-> now, UpdatedAt |-> now]}]
        ELSE LET epochRecord == FirstByID(EpochsAt(tables, clientAddress, epochNumber))
             IN  [tables EXCEPT !.epoch_earnings = (@ \ {epochRecord}) \cup
                     {[epochRecord EXCEPT
                         !.TotalEarnings = Wrap64(@ + earningsValue),
                         !.UpdatedAt = now]}]

\* the line the loop body logs after tx.Commit(): the error Commit returns is
\* not looked at, "Stored client info" is logged either way
ReportAfterCommit(commitFailed) == "stored"

\* the line logged for the element: "Error ..." where a statement failed
Reported(outcome) ==
    IF outcome = "rolledback" THEN "error" ELSE ReportAfterCommit(outcome = "commit_failed")

\* the history entry of the transaction of element idx
LogEntry(outcome) ==
    [arrival |-> nElems - Len(msg.clientData) + RangeIndex(msg, idx), Address |-> ev.Address, amount |-> ev.earningsValue,
     key |-> EarningKey(ev), epoch |-> epochInfo.CurrentEpoch, outcome |-> outcome,
     reported |-> Reported(outcome), timestamp |-> ev.timestamp]

\* the statements of the loop body, in the order the code issues them
Statements == <<"client", "earning", "epoch">>

\* lines 252-286 when no statement fails: the client is created or updated
ClientStatement(tables, e) ==
    IF ClientFound(tables, e)
    THEN LET client == CHOOSE c \in ClientsAt(tables, e.Address) : TRUE
         IN  ClientSave(tables, UpdatedClient(client, e))
    ELSE ClientCreate(tables, NewClient(e))

\* lines 289-298 when no statement fails: the ClientEarning row is inserted
EarningStatement(tables, e) ==
    EarningCreate(tables, NewEarning(NextID(tables.client_earnings), e))

\* a slip: the epoch is asked for again for the element, and has advanced
EpochStatement_mutRefetch(tables, e, epoch, now) ==
    upsertEpochEarnings(tables, EpochKey(e), e.earningsValue,
                        [epoch EXCEPT !.CurrentEpoch = @ + 1], now)

\* line 303 when no statement fails
EpochStatement(tables, e, epoch, now) ==
    upsertEpochEarnings(tables, EpochKey(e), e.earningsValue, epoch, now)

\* the transaction's tables once its first n statements have run
RECURSIVE TxAfter(_, _, _, _, _)
TxAfter(tables, n, e, epoch, now) ==
    IF n = 0 THEN tables
    ELSE LET before == TxAfter(tables, n - 1, e, epoch, now)
         IN  CASE Statements[n] = "client" -> ClientStatement(before, e)
               [] Statements[n] = "earning" -> EarningStatement(before, e)
               [] Statements[n] = "epoch" -> EpochStatement(before, e, epoch, now)

\* a statement the database refuses whatever the network does: the insert of
\* a client whose primary key is taken
MustFail(tables, n, e) ==
    /\ Statements[n] = "client"
    /\ ~ClientFound(tables, e)
    /\ ClientKeyTaken(tables, NewClient(e).Address)

\* a slip: an error path goes to the next element without tx.Rollback()
Rollback_mutOmitted(t) == t

\* tx.Rollback() on the error paths of the loop body (lines 264, 270, 282,
\* 295, 304): the transaction is over
Rollback(t) == NoTx

\* a slip: a failed statement ends the loop ("return" for "continue")
AfterFailedStatement_mutReturn(m, i) == Len(m.clientData) + 1

\* lines 266, 272, 284, 297 and 306, "continue" after tx.Rollback(): the
\* iteration that follows a failed statement
AfterFailedStatement(m, i) == i + 1

\* a slip: the error path commits what the transaction has written so far
AfterRollback_mutCommit(committed, written) == written

\* tx.Rollback(): the committed tables stay as they were at Begin
AfterRollback(committed, written) == committed

(***************************************************************************)
(* ReadBlocks and processMessage, step by step.                            *)
(***************************************************************************)
\* a slip: the results of the type assertions are not looked at
AfterShapeChecks_mutGoOn(m) == "epoch"

\* lines 180-200: json.Unmarshal, msg["result"], result["events"] and
\* events["message.client_data"]; any of them failing returns
AfterShapeChecks(m) == IF m.shape = "ok" THEN "epoch" ELSE "return"

\* br.Conn.ReadMessage() returns a message; processMessage checks its shape
\* (lines 180-203)
ReadMessage ==
    /\ pc = "read"
    /\ conns[brConn].open
    /\ \E m \in MessagesUpTo(elemBudget) :
          /\ msg' = m
          /\ elemBudget' = elemBudget - Len(m.clientData)
          /\ nElems' = nElems + Len(m.clientData)
          /\ pc' = AfterShapeChecks(m)
    /\ UNCHANGED <<started, connVars, failBudget, epochInfo, idx, ev, storeVars, clock,
                   apiVars>>

\* a slip: the error is logged and the loop runs with the zero EpochInfo
AfterEpochError_mutGoOn == "loop"

\* lines 210-214: where processMessage goes when getCurrentEpoch fails
AfterEpochError == "return"

\* getCurrentEpoch(), once per message (lines 209-214)
FetchEpoch ==
    /\ pc = "epoch"
    /\ \/ /\ failBudget > 0
          /\ failBudget' = failBudget - 1
          /\ pc' = AfterEpochError
          /\ UNCHANGED <<epochInfo, idx>>
       \/ \E e \in EpochInfos :
             /\ epochInfo' = e
             /\ idx' = 1
             /\ pc' = "loop"
             /\ UNCHANGED failBudget
    /\ UNCHANGED <<started, connVars, elemBudget, nElems, msg, ev, storeVars, clock, apiVars>>

\* the range loop is over
LoopDone ==
    /\ pc = "loop"
    /\ idx > Len(msg.clientData)
    /\ pc' = "return"
    /\ UNCHANGED <<started, connVars, failBudget, msgVars, storeVars, clock, apiVars>>

\* processMessage returns (lines 183, 188, 192, 199, 213, 313) and ReadBlocks
\* goes on to the next ReadMessage
ProcessReturn ==
    /\ pc = "return"
    /\ pc' = "read"
    /\ msg' = NoMsg
    /\ epochInfo' = NoEpoch
    /\ idx' = 0
    /\ ev' = NoEv
    /\ UNCHANGED <<started, connVars, failBudget, elemBudget, nElems, storeVars, clock,
                   apiVars>>

\* lines 217-232: the element is no string or does not unmarshal: continue
SkipElement ==
    /\ pc = "loop"
    /\ idx <= Len(msg.clientData)
    /\ ~Parseable(ElementAt(msg, idx))
    /\ idx' = AfterContinue(msg, idx)
    /\ UNCHANGED <<pc, started, connVars, failBudget, elemBudget, nElems, msg, epochInfo, ev, storeVars, clock,
                   apiVars>>

\* lines 234-249: the element is decoded and br.DB.Begin() opens a transaction
BeginEvent ==
    /\ pc = "loop"
    /\ idx <= Len(msg.clientData)
    /\ Parseable(ElementAt(msg, idx))
    /\ ev' = Decode(msg, idx, clock)
    /\ clock' = clock + 1
    /\ tx' = [active |-> TRUE, tables |-> db]
    /\ pc' = "tx"
    /\ UNCHANGED <<started, connVars, failBudget, elemBudget, nElems, msg, epochInfo, idx, db, log,
                   apiVars>>

\* lines 252-312: the statements of the transaction, each of which may fail
\* and roll the transaction back, then tx.Commit(), whose error the code does
\* not look at; either way the loop goes on to the next element
ApplyEvent ==
    /\ pc = "tx"
    /\ \/ \E n \in 1..Len(Statements) :
             /\ \A k \in 1..(n - 1) : ~MustFail(TxAfter(tx.tables, k - 1, ev, epochInfo, clock), k, ev)
             /\ \/ MustFail(TxAfter(tx.tables, n - 1, ev, epochInfo, clock), n, ev)
                \/ failBudget > 0
             /\ failBudget' = IF MustFail(TxAfter(tx.tables, n - 1, ev, epochInfo, clock), n, ev)
                              THEN failBudget ELSE failBudget - 1
             /\ db' = AfterRollback(db, TxAfter(tx.tables, n - 1, ev, epochInfo, clock))
             /\ log' = Append(log, LogEntry("rolledback"))
             /\ idx' = AfterFailedStatement(msg, idx)
             /\ tx' = Rollback(tx)
       \/ /\ \A k \in 1..Len(Statements) :
                ~MustFail(TxAfter(tx.tables, k - 1, ev, epochInfo, clock), k, ev)
          /\ idx' = idx + 1
          /\ tx' = NoTx
          /\ \/ /\ db' = TxAfter(tx.tables, Len(Statements), ev, epochInfo, clock)
                /\ log' = Append(log, LogEntry("committed"))
                /\ UNCHANGED failBudget
             \/ /\ failBudget > 0
                /\ failBudget' = failBudget - 1
                /\ db' = db
                /\ log' = Append(log, LogEntry("commit_failed"))
    /\ pc' = "loop"
    /\ UNCHANGED <<started, connVars, elemBudget, nElems, msg, epochInfo, ev, clock, apiVars>>

Next ==
    \/ NewBlockReader
    \/ Dial
    \/ Subscribe
    \/ EnterReadLoop
    \/ ReadError
    \/ HandleReconnection
    \/ ReadMessage
    \/ FetchEpoch
    \/ LoopDone
    \/ ProcessReturn
    \/ SkipElement
    \/ BeginEvent
    \/ ApplyEvent

Spec == Init /\ [][Next]_vars

(***************************************************************************)
(* The history of the run, as the properties read it.                      *)
(***************************************************************************)
Entries == {log[i] : i \in DOMAIN log}

\* the transactions that committed, in the order they did
Committed == SelectSeq(log, LAMBDA h : h.outcome = "committed")

HasCommitted(address) ==
    \E h \in Entries : h.outcome = "committed" /\ h.Address = address

\* the k-th committed event inserted the ClientEarning row with ID k: the rows
\* the committed events of the client at this address created
RecordsOf(address) ==
    {r \in db.client_earnings :
        r.ID \in DOMAIN Committed /\ Committed[r.ID].Address = address}

RECURSIVE SumEarnings(_)
SumEarnings(rows) ==
    IF rows = {} THEN 0
    ELSE LET r == CHOOSE q \in rows : TRUE
         IN  r.Earnings + SumEarnings(rows \ {r})

RECURSIVE SumAmounts(_)
SumAmounts(entries) ==
    IF entries = {} THEN 0
    ELSE LET h == CHOOSE q \in entries : TRUE
         IN  h.amount + SumAmounts(entries \ {h})

(***************************************************************************)
(* Store invariants.                                                       *)
(***************************************************************************)
\* C1: in every committed state, a client's TotalLifetimeEarnings equals the
\* sum of the Earnings of the ClientEarning rows that the committed events
\* for its address created.
C1_TotalIsSumOfRecords ==
    \A c \in db.clients :
        c.TotalLifetimeEarnings = SumEarnings(RecordsOf(c.Address))

\* what the code keeps instead: the total is that sum reduced to an int64
TotalIsWrappedSumOfRecords ==
    \A c \in db.clients :
        c.TotalLifetimeEarnings = Wrap64(SumEarnings(RecordsOf(c.Address)))

\* C2: the clients table holds exactly one row for every address that has a
\* committed event and none for any other address, so an event for a known
\* address changes the row that is there and adds none.
C2_OneClientPerAddress ==
    \A a \in Addresses \cup {c.Address : c \in db.clients} :
        Cardinality(ClientsAt(db, a)) = IF HasCommitted(a) THEN 1 ELSE 0

\* two events of one address have committed and its one row carries the
\* public key of the later one
C2_Witness ==
    \E i, j \in DOMAIN Committed :
        /\ i < j
        /\ j = Len(Committed)
        /\ Committed[i].Address = Committed[j].Address
        /\ \E c \in db.clients :
              /\ c.Address = Committed[j].Address
              /\ c.PubKey = "PK2"
              /\ c.LastChallengeTime > 0

\* the (client key, epoch number) pairs of the history and of the table
EpochPairs ==
    {<<h.key, h.epoch>> : h \in Entries}
    \cup {<<r.ClientAddress, r.EpochNumber>> : r \in db.epoch_earnings}

\* C3: epoch_earnings holds exactly one row for every (client key, epoch
\* number) that has a committed event and none for any other pair: the upsert
\* inserts only when the pair has no row and accumulates otherwise.
C3_OneRowPerClientEpoch ==
    \A p \in EpochPairs :
        Cardinality(EpochsAt(db, p[1], p[2])) =
            IF \E h \in Entries :
                  h.outcome = "committed" /\ h.key = p[1] /\ h.epoch = p[2]
            THEN 1 ELSE 0

\* two events of one key have committed in the same epoch and the table
\* holds the one row of that pair, updated after it was created
C3_Witness ==
    \E i, j \in DOMAIN Committed :
        /\ i < j
        /\ Committed[i].key = Committed[j].key
        /\ Committed[i].epoch = Committed[j].epoch
        /\ \E r \in db.epoch_earnings :
              /\ r.ClientAddress = Committed[i].key
              /\ r.EpochNumber = Committed[i].epoch
              /\ r.UpdatedAt > r.CreatedAt

\* the committed events of the client at this address in this epoch
ClientEpochEvents(address, epochNumber) ==
    {h \in Entries :
        h.outcome = "committed" /\ h.Address = address /\ h.epoch = epochNumber}

\* C4: for every client and epoch number, the TotalEarnings of the epoch row
\* the client's events were added to equals the sum of the amounts of exactly
\* that client's committed events of that epoch.
C4_EpochTotalIsSumOfClientEvents ==
    \A h \in Entries :
        h.outcome = "committed" =>
            /\ EpochsAt(db, h.key, h.epoch) # {}
            /\ \A r \in EpochsAt(db, h.key, h.epoch) :
                  r.TotalEarnings = SumAmounts(ClientEpochEvents(h.Address, h.epoch))

\* what the code keeps instead: a row's total is the int64 sum of the
\* committed events that carried the row's key, whatever their client
EpochTotalIsWrappedSumOfKeyEvents ==
    \A r \in db.epoch_earnings :
        r.TotalEarnings =
            Wrap64(SumAmounts({h \in Entries :
                        /\ h.outcome = "committed"
                        /\ h.key = r.ClientAddress
                        /\ h.epoch = r.EpochNumber}))

(***************************************************************************)
(* Transactions.                                                           *)
(***************************************************************************)
\* the step ends a transaction without committing it
EndsUncommitted ==
    /\ pc = "tx"
    /\ Len(log') = Len(log) + 1
    /\ log'[Len(log')].outcome # "committed"

\* C5: a transaction that fails leaves clients, client_earnings and
\* epoch_earnings exactly as they were before the event, is closed, and the
\* loop goes on to the next element: no element is ever applied a second time.
C5_FailedEventLeavesNoTrace ==
    /\ [][EndsUncommitted => db' = db /\ tx' = NoTx /\ pc' = "loop" /\ idx' = idx + 1]_vars
    /\ [](\A i, j \in DOMAIN log : log[i].arrival = log[j].arrival => i = j)

\* an event was rolled back after another had committed, and a later one
\* committed after it
C5_Witness ==
    \E i \in DOMAIN log :
        /\ log[i].outcome = "rolledback"
        /\ db.client_earnings # {}
        /\ \E j \in DOMAIN log : j > i /\ log[j].outcome = "committed"

\* the indices of the elements of the message that cannot be applied
BadIndices(m) == {i \in DOMAIN m.clientData : ~Parseable(m.clientData[i])}

\* the history entries of the message being processed, in history order
EntriesOfMessage ==
    SelectSeq(log, LAMBDA h : h.arrival > nElems - Len(msg.clientData))

\* the index of the k-th element that can be applied when only element bad cannot
KthGood(k, bad) == IF k < bad THEN k ELSE k + 1

\* the loop of processMessage has run to its end
LoopFinished == pc = "return" /\ msg.shape = "ok" /\ epochInfo # NoEpoch

\* a run in which the environment fails at most BatchFailures times and the
\* feed delivers up to MaxBatch elements, enough for one message of that length
BatchFailures == MaxFailures - 1
BatchInit == InitWith(BatchFailures, MaxBatch)
BatchSpec == BatchInit /\ [][Next]_vars

\* C6: when a message carries K elements of which exactly one cannot be
\* parsed, then at the end of processMessage a transaction has been run for
\* each of the other K-1 elements, once and in list order, with the element's
\* own address and amount; all of them are committed when the database
\* refused nothing, and no transaction is left open.
C6_OneBadElementIsolated ==
    (LoopFinished /\ Cardinality(BadIndices(msg)) = 1) =>
        LET bad == CHOOSE i \in BadIndices(msg) : TRUE
            K == Len(msg.clientData)
            mine == EntriesOfMessage
        IN  /\ tx = NoTx
            /\ Len(mine) = K - 1
            /\ \A k \in 1..(K - 1) :
                  LET e == msg.clientData[KthGood(k, bad)]
                  IN  /\ k <= Len(mine)
                      /\ mine[k].arrival = nElems - K + KthGood(k, bad)
                      /\ mine[k].Address = e.Address
                      /\ mine[k].amount = parseEarnings(e.Earnings)
                      /\ failBudget = BatchFailures => mine[k].outcome = "committed"

\* a message of three elements with a bad one between two good ones has been
\* processed to its end and the two good ones are committed
C6_Witness ==
    /\ LoopFinished
    /\ BadIndices(msg) = {2}
    /\ Len(msg.clientData) = 3
    /\ Len(EntriesOfMessage) = Len(msg.clientData) - 1
    /\ \A k \in DOMAIN EntriesOfMessage : EntriesOfMessage[k].outcome = "committed"

(***************************************************************************)
(* The connection.                                                         *)
(***************************************************************************)
\* the goroutine always takes its next step; a blocked ReadMessage returns
FairSpec == Spec /\ WF_vars(Next)

\* C7: whenever a read error has sent the reader into handleReconnection,
\* however many dials and subscription writes fail after it, the reader gets
\* to a subscribed connection again; once ReadBlocks runs it never gives up.
C7_ReconnectsEventually ==
    /\ (pc = "reconnect") ~> (pc = "subscribed")
    /\ [](started => pc \notin {"exited", "returned"})

\* the reader is subscribed again after a read error and a failed attempt
C7_Witness ==
    /\ started
    /\ pc = "subscribed"
    /\ failBudget <= MaxFailures - 2
    /\ Len(conns) >= 2
    /\ log = <<>>
    /\ nElems = 0

\* the state of the connection lifecycle the goroutine is in
Lifecycle(p) ==
    CASE p = "init" -> "Disconnected"
      [] p \in {"dial", "subscribe"} -> "Connecting"
      [] p = "subscribed" -> "Subscribed"
      [] p \in {"read", "epoch", "loop", "tx", "return"} -> "Reading"
      [] p = "reconnect" -> "Reconnecting"
      [] p \in {"exited", "returned"} -> "Terminated"

ListedTransitions ==
    { <<"Disconnected", "Connecting">>, <<"Connecting", "Subscribed">>,
      <<"Subscribed", "Reading">>, <<"Reading", "Reconnecting">>,
      <<"Reconnecting", "Connecting">> }

\* a step moves inside a lifecycle state or along one of these transitions
MovesAlong(transitions) ==
    \/ Lifecycle(pc') = Lifecycle(pc)
    \/ <<Lifecycle(pc), Lifecycle(pc')>> \in transitions

\* Reconnecting is entered from Reading by a read error only
ReadingLeftByReadError ==
    (Lifecycle(pc) = "Reading" /\ Lifecycle(pc') # "Reading") =>
        pc = "read" /\ failBudget' = failBudget - 1 /\ pc' = "reconnect"

NeverEndsOnceStarted ==
    /\ [](started => Lifecycle(pc) # "Terminated")
    /\ [][started => started']_vars

AllApplied ==
    \A i \in DOMAIN msg.clientData :
        Parseable(msg.clientData[i]) =>
            \E h \in Entries : h.arrival = nElems - Len(msg.clientData) + i

\* C9: transactions are run in the order of arrival of their elements; a
\* message is received only when the one before it has been processed to its
\* end, with every element that can be applied applied and no transaction
\* open.
C9_InArrivalOrder ==
    /\ [](\A i, j \in DOMAIN log : i < j => log[i].arrival < log[j].arrival)
    /\ [](LoopFinished => AllApplied /\ tx = NoTx)
    /\ [][msg' # msg /\ msg' # NoMsg => pc = "read" /\ msg = NoMsg /\ tx = NoTx]_vars
    /\ [][msg' # msg /\ msg' = NoMsg => pc = "return" /\ tx = NoTx]_vars

\* two events of one client have been applied, the later one last, and the
\* next read is due
C9_Witness ==
    /\ pc = "read"
    /\ Len(log) = 2
    /\ log[1].Address = log[2].Address
    /\ log[1].outcome = "committed"
    /\ log[2].outcome = "committed"
    /\ log[1].amount # log[2].amount

(***************************************************************************)
(* parseEarnings on its own: the "earnings" strings of a payload.          *)
(***************************************************************************)
EarningsChars == {"4", "2", "0", "-", "+", "a", " "}

Str500000usoar == <<"5", "0", "0", "0", "0", "0">> \o usoar
StrAbcusoar == <<"a", "b", "c">> \o usoar
Str42 == <<"4", "2">>

\* numerals at both ends of the int64 range and just beyond them
EdgeNumerals ==
    { ToDigits(MaxInt64), ToDigits(MaxInt64 + 1), ToDigits(MaxUint64),
      ToDigits(MaxUint64 + 1), <<"-">> \o ToDigits(MaxInt64 + 1),
      <<"-">> \o ToDigits(MaxInt64 + 2), <<"9", "9", "9", "9", "9", "9", "9">> }

EarningsSuffixes ==
    { <<>>, usoar, usoar \o usoar, <<"u", "s", "o", "a">>, <<"U", "S", "O", "A", "R">>,
      usoar \o <<"4">> }

EarningsStrings ==
    {body \o suffix : body \in SeqsUpTo(EarningsChars, MaxBodyLen) \cup EdgeNumerals,
                      suffix \in EarningsSuffixes}
    \cup {Str500000usoar, StrAbcusoar, Str42}

\* a message whose one element is a payload with this "earnings" string
ParseInit ==
    /\ pc = "parse"
    /\ \E s \in EarningsStrings :
          msg = [shape |-> "ok", clientData |-> <<Payload("A1", s, "PK1", "")>>,
                 solana |-> NoList]
    /\ started = FALSE
    /\ conns = <<>>
    /\ conn = 0
    /\ brConn = 0
    /\ failBudget = MaxFailures
    /\ elemBudget = 0
    /\ nElems = 1
    /\ epochInfo = NoEpoch
    /\ idx = 1
    /\ ev = NoEv
    /\ tx = NoTx
    /\ db = EmptyTables
    /\ clock = 1
    /\ log = <<>>
    /\ request = NoRequest
    /\ response = NoResponse

\* lines 234-246 for that element: earningsValue := parseEarnings(Earnings)
ParseElement ==
    /\ pc = "parse"
    /\ ev' = Decode(msg, idx, clock)
    /\ pc' = "parsed"
    /\ UNCHANGED <<started, connVars, failBudget, elemBudget, nElems, msg, epochInfo, idx,
                   storeVars, clock, apiVars>>

ParseNext == ParseElement

ParseSpec == ParseInit /\ [][ParseNext]_vars

\* the string handed to parseEarnings
EarningsGiven == msg.clientData[1].Earnings

\* the value of a decimal digit
DecimalDigit ==
    [c \in {"0", "1", "2", "3", "4", "5", "6", "7", "8", "9"} |->
        CASE c = "0" -> 0 [] c = "1" -> 1 [] c = "2" -> 2 [] c = "3" -> 3
          [] c = "4" -> 4 [] c = "5" -> 5 [] c = "6" -> 6 [] c = "7" -> 7
          [] c = "8" -> 8 [] c = "9" -> 9]

\* the number a string of decimal digits denotes, from its last digit backwards
RECURSIVE Denotes(_)
Denotes(digits) ==
    IF digits = <<>> THEN 0
    ELSE DecimalDigit[digits[Len(digits)]]
         + 10 * Denotes(SubSeq(digits, 1, Len(digits) - 1))

\* the string with one trailing "usoar" taken off, if it ends in one
WithoutOneSuffix(s) ==
    IF Len(s) >= 5 /\ \A k \in 1..5 : s[Len(s) - 5 + k] = usoar[k]
    THEN [k \in 1..(Len(s) - 5) |-> s[k]]
    ELSE s

\* the amount the string stands for: the base-10 integer, with an optional
\* sign, that is left once one trailing "usoar" is taken off, when there is
\* one and an int64 holds it, and 0 otherwise
AmountOf(s) ==
    LET rest == WithoutOneSuffix(s)
        signed == rest # <<>> /\ rest[1] \in {"+", "-"}
        digits == IF signed THEN [k \in 1..(Len(rest) - 1) |-> rest[k + 1]] ELSE rest
        numeral == digits # <<>> /\ \A k \in DOMAIN digits : digits[k] \in DOMAIN DecimalDigit
        n == IF signed /\ rest[1] = "-" THEN -Denotes(digits) ELSE Denotes(digits)
    IN  IF numeral /\ n >= MinInt64 /\ n <= MaxInt64 THEN n ELSE 0

\* C10: parseEarnings returns the base-10 integer left after one trailing
\* "usoar" is taken off the string, and 0 when what is left is no integer an
\* int64 holds: "500000usoar" gives 500000, "abcusoar" gives 0, "" gives 0 and
\* "42" gives 42.  It has a value for every string, and the event goes on with it.
C10_AmountNormalization ==
    pc = "parsed" =>
        /\ ev.earningsValue = AmountOf(EarningsGiven)
        /\ ev.earningsValue \in MinInt64..MaxInt64
        /\ EarningsGiven = Str500000usoar => ev.earningsValue = 500000
        /\ EarningsGiven = StrAbcusoar => ev.earningsValue = 0
        /\ EarningsGiven = <<>> => ev.earningsValue = 0
        /\ EarningsGiven = Str42 => ev.earningsValue = 42

\* "500000usoar" has been parsed to 500000
C10_Witness ==
    /\ pc = "parsed"
    /\ EarningsGiven = Str500000usoar
    /\ ev.earningsValue = 500000

(***************************************************************************)
(* Amounts.                                                                *)
(***************************************************************************)
\* the client's row keeps or raises its total in this step
TotalsDoNotDecrease ==
    \A c \in db.clients : \A d \in db'.clients :
        c.Address = d.Address => d.TotalLifetimeEarnings >= c.TotalLifetimeEarnings

\* C11: the amount of every event is non-negative, also when its earnings
\* string begins with a minus sign, so no committed event lowers a client's
\* TotalLifetimeEarnings.
C11_TotalNeverDecreases ==
    /\ [](\A h \in Entries : h.amount >= 0)
    /\ [][TotalsDoNotDecrease]_vars

(***************************************************************************)
(* The end-to-end scenario.                                                *)
(***************************************************************************)
\* one message with the single payload {A1, "1000000usoar", PK1} and no
\* "solana_address" list
ScenarioMessage ==
    [shape |-> "ok",
     clientData |-> <<Payload("A1", ToDigits(1000000) \o usoar, "PK1", "")>>,
     solana |-> NoList]

\* that message is the first of the run, the endpoint answered epoch 5, and
\* processMessage has come to its end with the event committed
ScenarioDone ==
    /\ LoopFinished
    /\ msg = ScenarioMessage
    /\ nElems = 1
    /\ epochInfo.CurrentEpoch = 5
    /\ Len(log) = 1
    /\ log[1].outcome = "committed"

\* what the scenario leaves in the store, but for the key of the epoch row
ScenarioStore(epochKey) ==
    /\ \E c \in db.clients :
          /\ db.clients = {c}
          /\ c.Address = "A1"
          /\ c.PubKey = "PK1"
          /\ c.TotalLifetimeEarnings = 1000000
    /\ \E r \in db.client_earnings :
          /\ db.client_earnings = {r}
          /\ r.Earnings = 1000000
    /\ \E a \in db.epoch_earnings :
          /\ db.epoch_earnings = {a}
          /\ a.ClientAddress = epochKey
          /\ a.EpochNumber = 5
          /\ a.TotalEarnings = 1000000
          /\ a.EndTime = epochInfo.CurrentEpochStart + 86400

\* C12: from an empty store, the message with the single payload {A1,
\* "1000000usoar", PK1} and no alternate-id list, processed in epoch 5 of
\* duration 86400 s, leaves exactly client A1 with total 1000000, one earnings
\* record of 1000000 and one epoch row keyed (A1, 5) with total 1000000 and
\* end time start + 86400 s.
C12_EndToEndScenario == ScenarioDone => ScenarioStore("A1")

\* what the code leaves: the same store with the epoch row keyed ("", 5)
ScenarioAsStored == ScenarioDone => ScenarioStore("")

(***************************************************************************)
(* Keys of the earnings records.                                           *)
(***************************************************************************)
\* the step commits the transaction of the event in ev
Commits ==
    /\ pc = "tx"
    /\ Len(log') = Len(log) + 1
    /\ log'[Len(log')].outcome = "committed"

\* C13: the ClientEarning row a committed event inserts carries, as its
\* client_address, the address or the stored SolanaAddress of the clients row
\* that the same transaction created or updated.
C13_RecordReferencesItsClient ==
    [][Commits =>
          \A r \in db'.client_earnings \ db.client_earnings :
              \E c \in ClientsAt(db', ev.Address) :
                  r.ClientAddress = c.Address \/ r.ClientAddress = c.SolanaAddress]_vars

\* what the code keeps: the row carries the payload's embedded "solanaAddress"
RecordCarriesEmbeddedSolana ==
    [][Commits =>
          \A r \in db'.client_earnings \ db.client_earnings :
              r.ClientAddress = ev.SolanaAddress]_vars

(***************************************************************************)
(* Resolution of the alternate address.                                    *)
(***************************************************************************)
\* the element whose transaction is open
ElementInHand == msg.clientData[idx]

\* C14: the address resolved for the element at index i is the payload's
\* embedded "solanaAddress" when that is not empty; otherwise element i of the
\* "solana_address" list when the list has one and it is a string; otherwise
\* it is empty.
C14_AlternateAddressResolution ==
    pc = "tx" =>
        /\ ElementInHand.SolanaAddress # "" =>
              ev.solanaAddress = ElementInHand.SolanaAddress
        /\ (ElementInHand.SolanaAddress = "" /\ idx \in DOMAIN msg.solana
                /\ msg.solana[idx].isString) =>
              ev.solanaAddress = msg.solana[idx].val
        /\ (ElementInHand.SolanaAddress = "" /\ idx \notin DOMAIN msg.solana) =>
              ev.solanaAddress = ""
        /\ (ElementInHand.SolanaAddress = "" /\ idx \in DOMAIN msg.solana
                /\ ~msg.solana[idx].isString) =>
              ev.solanaAddress = ""

\* the second element of a message has no embedded address and the list is
\* too short for it, after a first element that took its address from the list
C14_Witness ==
    /\ pc = "tx"
    /\ idx = 2
    /\ Len(msg.solana) = 1
    /\ msg.solana[1].isString
    /\ msg.clientData[1].kind = "payload"
    /\ msg.clientData[1].SolanaAddress = ""
    /\ ElementInHand.SolanaAddress = ""
    /\ ev.solanaAddress = ""
    /\ \E c \in db.clients : c.SolanaAddress = msg.solana[1].val

(***************************************************************************)
(* Failures of the epoch endpoint and of the database.                     *)
(***************************************************************************)
\* the step is a getCurrentEpoch that returns an error
EpochFetchFails == pc = "epoch" /\ failBudget' = failBudget - 1

\* processMessage is about to return because getCurrentEpoch failed
EpochFetchFailed == pc = "return" /\ msg.shape = "ok" /\ epochInfo = NoEpoch

\* C15: when getCurrentEpoch fails for a message, processMessage returns with
\* the store as it was and without a transaction for any element of the
\* message; ReadBlocks goes on to the next read, and the next message with
\* client data fetches the epoch afresh, whatever happened before.
C15_EpochFailureDropsMessageOnly ==
    /\ [][EpochFetchFails => pc' = "return" /\ db' = db /\ log' = log /\ tx' = NoTx]_vars
    /\ [](EpochFetchFailed =>
             /\ tx = NoTx
             /\ \A h \in Entries : h.arrival <= nElems - Len(msg.clientData))
    /\ [][pc = "return" => pc' = "read" /\ db' = db /\ epochInfo' = NoEpoch]_vars
    /\ [][(pc = "read" /\ msg' # msg /\ msg'.shape = "ok") =>
              pc' = "epoch" /\ epochInfo' = NoEpoch]_vars
    /\ [](pc = "epoch" => epochInfo = NoEpoch /\ ENABLED (FetchEpoch /\ pc' = "loop"))

\* the fetch has failed for a message that carries a payload, after an event
\* of an earlier message was committed
C15_Witness ==
    /\ EpochFetchFailed
    /\ \E i \in DOMAIN msg.clientData : Parseable(msg.clientData[i])
    /\ Len(log) = 1
    /\ log[1].outcome = "committed"
    /\ db.clients # {}

\* every committed event still has its ClientEarning row
CommittedStay ==
    \A k \in DOMAIN Committed :
        \E r \in db.client_earnings :
            /\ r.ID = k
            /\ r.Earnings = Committed[k].amount
            /\ r.ClientAddress = Committed[k].key

\* the step is a statement of the transaction that fails
StatementFails ==
    /\ pc = "tx"
    /\ Len(log') = Len(log) + 1
    /\ log'[Len(log')].outcome = "rolledback"

\* C16: a statement that fails aborts the transaction of its event only: what
\* was committed before stays committed, the loop goes on with the next
\* element of the message, every element of the message that can be applied
\* gets its transaction, and ReadBlocks goes on to the next message.
C16_PersistenceFailureIsolated ==
    /\ [][StatementFails =>
              /\ db' = db
              /\ pc' = "loop"
              /\ idx' = idx + 1
              /\ msg' = msg]_vars
    /\ [](CommittedStay)
    /\ [](LoopFinished => AllApplied)
    /\ [][pc = "return" => pc' = "read"]_vars

\* in one message of three events the second was rolled back, the first is
\* still committed and the third was committed after it
C16_Witness ==
    /\ LoopFinished
    /\ Len(msg.clientData) = 3
    /\ Len(log) = 3
    /\ log[1].outcome = "committed"
    /\ log[2].outcome = "rolledback"
    /\ log[3].outcome = "committed"
    /\ Cardinality(db.client_earnings) = 2

(***************************************************************************)
(* The query API's status handler on its own: GET /api/v1/miner/status.    *)
(* Time is counted in seconds; 0 stands for the zero time.Time.            *)
(***************************************************************************)
MaxAgeSeconds == 660

SecondsPerMinute == 60
ZeroTime == 0

StatusUp == "Up"
StatusDegraded == "Degraded"
StatusDown == "Down"

Wallets == {"", "S1", "S2", "S3"}

\* a clients row as the ingestion leaves it, last challenged at time t
StatusClient(address, solana, t) ==
    [Address |-> address, PubKey |-> "PK1", SolanaAddress |-> solana,
     TotalLifetimeEarnings |-> 1000000, LastChallengeTime |-> t]

\* the order of the primary key, which First() sorts by
AddressRank(address) == IF address = "A1" THEN 1 ELSE 2

\* db.Where("solana_address = ?", solanaWallet)
ClientsBySolana(tables, solanaWallet) ==
    {c \in tables.clients : c.SolanaAddress = solanaWallet}

\* .First(&client): the match with the least primary key
FirstByAddress(rows) ==
    CHOOSE r \in rows : \A q \in rows : AddressRank(r.Address) <= AddressRank(q.Address)

\* now.Sub(client.LastChallengeTime), in seconds
DiffSeconds(now, lastChallengeTime) == now - lastChallengeTime

\* the switch on diffMins
StatusOfDiff(diffSecs) ==
    IF diffSecs <= 2 * SecondsPerMinute
    THEN [status |-> StatusUp, issues |-> <<>>]
    ELSE IF diffSecs > 2 * SecondsPerMinute /\ diffSecs < 5 * SecondsPerMinute
    THEN [status |-> "immobile", issues |-> <<"Latency">>]
    ELSE [status |-> StatusDown, issues |-> <<"Offline">>]

Answer(code, status, issues) == [code |-> code, status |-> status, issues |-> issues]

\* the answer to a request that reached the lookup and whose lookup did not fail
StatusAnswer(tables, solanaWallet, now) ==
    LET rows == ClientsBySolana(tables, solanaWallet) IN
    IF rows = {} THEN Answer(200, StatusDown, <<"Offline">>)
    ELSE LET client == FirstByAddress(rows) IN
         IF client.LastChallengeTime = ZeroTime
         THEN Answer(200, StatusDown, <<"Offline">>)
         ELSE LET s == StatusOfDiff(DiffSeconds(now, client.LastChallengeTime)) IN
              Answer(200, s.status, s.issues)

\* the store the handler reads: A1 with wallet S1, challenged at any time up
\* to now or never, and possibly A2, never challenged, with wallet S1 or S2
StatusInit ==
    /\ pc = "status"
    /\ clock = MaxAgeSeconds
    /\ \E t \in 0..MaxAgeSeconds, others \in SUBSET {StatusClient("A2", "S1", ZeroTime),
                                                     StatusClient("A2", "S2", ZeroTime)} :
          /\ Cardinality(others) <= 1
          /\ db = [EmptyTables EXCEPT !.clients = {StatusClient("A1", "S1", t)} \cup others]
    /\ request \in [wallet : Wallets]
    /\ response = NoResponse
    /\ started = FALSE
    /\ conns = <<>>
    /\ conn = 0
    /\ brConn = 0
    /\ failBudget = 1
    /\ elemBudget = 0
    /\ nElems = 0
    /\ msg = NoMsg
    /\ epochInfo = NoEpoch
    /\ idx = 0
    /\ ev = NoEv
    /\ tx = NoTx
    /\ log = <<>>

\* GetMinerStatus, from the request to the c.JSON that answers it
GetMinerStatus ==
    /\ pc = "status"
    /\ pc' = "answered"
    /\ \/ /\ request.wallet = ""
          /\ response' = Answer(400, "", <<>>)
          /\ UNCHANGED failBudget
       \/ /\ request.wallet # ""
          /\ \/ /\ response' = StatusAnswer(db, request.wallet, clock)
                /\ UNCHANGED failBudget
             \/ /\ failBudget > 0
                /\ failBudget' = failBudget - 1
                /\ response' = Answer(500, "", <<>>)
    /\ UNCHANGED <<started, connVars, msgVars, storeVars, clock, request>>

StatusNext == GetMinerStatus

StatusSpec == StatusInit /\ [][StatusNext]_vars

\* the row the request is about, and the age of its last activity
Answered == pc = "answered" /\ response.code = 200
RowsAsked == ClientsBySolana(db, request.wallet)
AgeAsked == clock - FirstByAddress(RowsAsked).LastChallengeTime
NeverActive == FirstByAddress(RowsAsked).LastChallengeTime = ZeroTime

\* the labels of the three classes; the degraded one is answered as
\* "immobile" by this handler and declared as StatusDegraded
Healthy == {StatusUp}
Degraded == {StatusDegraded, "immobile"}
Down == {StatusDown}

\* C17: the status is a total function of the age of the last activity: up to
\* 2 minutes healthy, above 2 and up to 5 minutes degraded, above 5 minutes or
\* no client record down.
C17_StatusThresholds ==
    Answered =>
       /\ response.status \in Healthy \cup Degraded \cup Down
       /\ RowsAsked = {} => response.status \in Down
       /\ RowsAsked # {} /\ ~NeverActive =>
             /\ AgeAsked <= 2 * SecondsPerMinute => response.status \in Healthy
             /\ AgeAsked > 2 * SecondsPerMinute /\ AgeAsked <= 5 * SecondsPerMinute
                   => response.status \in Degraded
             /\ AgeAsked > 5 * SecondsPerMinute => response.status \in Down

\* what the handler does: the degraded band ends below 5 minutes, and a
\* client never challenged is down
StatusAsAnswered ==
    Answered =>
       /\ RowsAsked = {} \/ NeverActive => response.status \in Down
       /\ RowsAsked # {} /\ ~NeverActive =>
             /\ AgeAsked <= 2 * SecondsPerMinute => response.status \in Healthy
             /\ AgeAsked > 2 * SecondsPerMinute /\ AgeAsked < 5 * SecondsPerMinute
                   => response.status \in Degraded
             /\ AgeAsked >= 5 * SecondsPerMinute => response.status \in Down

\* answered for a last activity exactly 5 minutes old
C17_AtFiveMinutes ==
    Answered /\ RowsAsked # {} /\ ~NeverActive /\ AgeAsked = 5 * SecondsPerMinute

(***************************************************************************)
(* Failures of Connect.                                                    *)
(***************************************************************************)
\* a step of Connect that ends in its error return
ConnectFails == pc \in {"dial", "subscribe"} /\ failBudget' < failBudget

\* C18: a failure of the initial connection attempt at startup is retried like
\* any later connection failure and does not terminate the process.
C18_StartupFailureRetried ==
    /\ [][ConnectFails => pc' = "reconnect"]_vars
    /\ [](pc # "exited")

\* what the program does: only a failure after ReadBlocks was entered is retried
ConnectFailureRetriedOnceStarted ==
    [][ConnectFails => pc' = (IF started THEN "reconnect" ELSE "exited")]_vars

(***************************************************************************)
(* A failing tx.Commit().                                                  *)
(***************************************************************************)
\* the step in which the commit of the open transaction fails
CommitFails ==
    /\ pc = "tx"
    /\ Len(log') = Len(log) + 1
    /\ log'[Len(log')].outcome = "commit_failed"

\* C19: if the commit of an event fails, the failure is surfaced as a
\* persistence error for that event (the event is not reported as stored) and
\* none of the event's effects are visible in the store.
C19_CommitFailureSurfaced ==
    [][CommitFails => db' = db /\ log'[Len(log')].reported = "error"]_vars

\* what the program does: the store is left as it was, and the event is
\* logged as stored
CommitFailureLeavesStore ==
    [][CommitFails => db' = db /\ log'[Len(log')].reported = "stored"]_vars

\* a commit has failed
C19_CommitFailed == \E i \in DOMAIN log : log[i].outcome = "commit_failed"

\* C20: Connect returns an error when the transport cannot be established or
\* the subscription message cannot be written, and whenever the subscription
\* write fails the newly opened transport is closed before the error is
\* returned: a failed Connect never leaves an open transport behind, and
\* br.Conn is the one it was.
C20_FailedConnectLeavesNoTransport ==
    [][ConnectFails =>
          /\ pc' \in {"reconnect", "exited"}
          /\ brConn' = brConn
          /\ \A k \in DOMAIN conns' :
                conns'[k].open => k \in DOMAIN conns /\ conns[k].open /\ k # conn]_vars

\* a subscription write has failed during a reconnect, after an earlier
\* transport had been dialled and subscribed: the new transport is closed
C20_Witness ==
    /\ pc = "reconnect"
    /\ brConn # 0
    /\ \E k \in DOMAIN conns : k # brConn /\ ~conns[k].open /\ conns[k].subs = 0

(***************************************************************************)
(* The subscription of a connection.                                       *)
(***************************************************************************)
\* br.Conn.ReadMessage() returns a message
ReadsMessage == pc = "read" /\ pc' \in {"epoch", "return"}

\* C21: exactly one subscription request is sent on each established
\* connection, before any message is read from it, and it selects only
\* runner_challenge Tx events; no message is ever read from a connection on
\* which the subscription was not written.
C21_SubscribedBeforeRead ==
    /\ [](\A k \in DOMAIN conns :
             /\ conns[k].subs <= 1
             /\ k = brConn => conns[k].subs = 1
             /\ conns[k].subs = 1 =>
                   conns[k].query.event = "Tx" /\ conns[k].query.action = "runner_challenge")
    /\ [][ReadsMessage => brConn \in DOMAIN conns /\ conns[brConn].subs = 1
                          /\ conns'[brConn].subs = 1]_vars

\* a message has been read from the connection of a reconnect
C21_Witness ==
    /\ pc = "epoch"
    /\ brConn > 1
    /\ conns[brConn].subs = 1
    /\ msg.shape = "ok"

(***************************************************************************)
(* Messages that are not for the ingestion.                                *)
(***************************************************************************)
\* the message in hand is no JSON, or lacks result, result.events or the
\* message.client_data list
Discarded == msg.shape \in BadShapes

\* C22: a message that is not valid JSON, or has no result.events mapping, or
\* has no message.client_data list is discarded without any effect: no epoch
\* fetch is issued, no transaction is opened and the three tables are unchanged.
C22_OtherMessagesDiscarded ==
    /\ [](Discarded => pc = "return" /\ epochInfo = NoEpoch /\ tx = NoTx)
    /\ [][ReadsMessage /\ Discarded' => db' = db /\ log' = log /\ failBudget' = failBudget]_vars
    /\ [][Discarded => db' = db /\ log' = log /\ failBudget' = failBudget /\ pc' = "read"]_vars

\* a message without client_data is in hand after an event was stored
C22_Witness ==
    /\ Discarded
    /\ msg.shape = "no_client_data"
    /\ db.client_earnings # {}

(***************************************************************************)
(* The loop of processMessage on its own: one message whose client_data    *)
(* list and solana_address list have any two lengths.                      *)
(***************************************************************************)
MaxSolana == MaxElems + 1

DecodeMessages ==
    [shape : {"ok"}, clientData : SeqsUpTo(Elems, MaxElems),
     solana : SeqsUpTo(SolanaElems, MaxSolana)]

\* processMessage at line 216, the epoch fetched
DecodeInit ==
    /\ pc = "loop"
    /\ msg \in DecodeMessages
    /\ nElems = Len(msg.clientData)
    /\ elemBudget = 0
    /\ epochInfo \in {e \in EpochInfos : e.CurrentEpoch = 5}
    /\ idx = 1
    /\ ev = NoEv
    /\ tx = NoTx
    /\ db = EmptyTables
    /\ clock = 1
    /\ log = <<>>
    /\ started = TRUE
    /\ conns = <<[open |-> TRUE, subs |-> 1, query |-> SubscribeQuery]>>
    /\ conn = 0
    /\ brConn = 1
    /\ failBudget = 1
    /\ request = NoRequest
    /\ response = NoResponse

DecodeNext ==
    \/ SkipElement
    \/ BeginEvent
    \/ ApplyEvent
    \/ LoopDone

DecodeSpec == DecodeInit /\ [][DecodeNext]_vars

\* the list has no string for the element in hand
NoPositional == idx \notin DOMAIN msg.solana \/ ~msg.solana[idx].isString

\* the history entries of element i of the message
EntriesAt(i) == {k \in DOMAIN log : log[k].arrival = nElems - Len(msg.clientData) + i}

\* C23: decoding never crashes on a length or type mismatch between the
\* payload list and the parallel alternate-address list: whatever the two
\* lengths, and for non-string entries, every payload element is processed
\* (once), and a missing or non-string alternate resolves to empty.
C23_MismatchedListsDecoded ==
    /\ pc = "tx" /\ NoPositional /\ ElementInHand.SolanaAddress = "" => ev.solanaAddress = ""
    /\ pc = "tx" => ev.solanaAddress \in {"", "S1", "S2"}
    /\ pc = "return" =>
          \A i \in DOMAIN msg.clientData :
             Cardinality(EntriesAt(i)) = IF Parseable(msg.clientData[i]) THEN 1 ELSE 0

\* two payloads went through with a list of one entry, which is no string
C23_Witness ==
    /\ pc = "return"
    /\ Len(msg.clientData) = 2
    /\ Len(msg.solana) = 1
    /\ ~msg.solana[1].isString
    /\ Len(log) = 2

\* one payload went through with a list of three entries
C23_LongerList ==
    /\ pc = "return"
    /\ Len(msg.clientData) = 1
    /\ Len(msg.solana) = 3
    /\ Len(log) = 1

(***************************************************************************)
(* The clients row of a known client.                                      *)
(***************************************************************************)
\* the clients row of the event in hand, before and after the step
StoredClient == CHOOSE c \in db.clients : c.Address = ev.Address
StoredClientAfter == CHOOSE c \in db'.clients : c.Address = ev.Address

\* the commit of an event whose client had a row
CommitsForKnownClient == Commits /\ ClientsAt(db, ev.Address) # {}

\* C24: when an event is applied to an existing client, the stored
\* SolanaAddress is overwritten only if the event's resolved address is not
\* empty; an event with an empty resolved address leaves it unchanged; and no
\* client's Address ever changes.
C24_AlternateOverwrittenOnlyIfGiven ==
    /\ [][CommitsForKnownClient =>
             StoredClientAfter.SolanaAddress =
                IF ev.solanaAddress # "" THEN ev.solanaAddress
                ELSE StoredClient.SolanaAddress]_vars
    /\ [][{c.Address : c \in db.clients} \subseteq {c.Address : c \in db'.clients}
          /\ \A c \in db.clients : c.Address # ev.Address => c \in db'.clients]_vars

\* an event without an address of either kind was committed for a client
\* whose row has one
C24_Witness ==
    /\ pc = "loop"
    /\ Len(log) = 2
    /\ log[1].outcome = "committed"
    /\ log[2].outcome = "committed"
    /\ log[1].Address = ev.Address
    /\ log[2].Address = ev.Address
    /\ ev.solanaAddress = ""
    /\ \E c \in ClientsAt(db, ev.Address) : c.SolanaAddress # ""

\* C25: after every committed event, the PubKey of the clients row equals the
\* public key carried by that event, the most recent one committed for the
\* address: a later event with a different key corrects the stored one.
C25_PubKeyIsLastObserved ==
    [][Commits => StoredClientAfter.PubKey = ev.PubKey]_vars

\* what the program keeps: the key of the event that created the row
PubKeyIsFirstObserved ==
    [][Commits =>
          StoredClientAfter.PubKey =
             IF ClientsAt(db, ev.Address) # {} THEN StoredClient.PubKey ELSE ev.PubKey]_vars

\* an event with another public key was committed for a known client
C25_KeyChanged ==
    /\ pc = "loop"
    /\ Len(log) = 2
    /\ log[1].outcome = "committed"
    /\ log[2].outcome = "committed"
    /\ log[1].Address = ev.Address
    /\ log[2].Address = ev.Address
    /\ \E c \in ClientsAt(db, ev.Address) : c.PubKey # ev.PubKey

\* the history entries committed for an address, in history order
CommittedFor(address) == SelectSeq(Committed, LAMBDA h : h.Address = address)

\* C26: every committed event sets the LastChallengeTime of its clients row
\* to the event's timestamp, the Timestamp of the ClientEarning row of the
\* same transaction; an event that is not committed leaves it unchanged; so
\* LastChallengeTime is always the timestamp of the client's most recent
\* committed event.
C26_LastActivityIsLastCommit ==
    /\ [][Commits =>
             /\ StoredClientAfter.LastChallengeTime = ev.timestamp
             /\ Cardinality(db'.client_earnings \ db.client_earnings) = 1
             /\ \A r \in db'.client_earnings \ db.client_earnings :
                   r.Timestamp = StoredClientAfter.LastChallengeTime]_vars
    /\ [][EndsUncommitted => db'.clients = db.clients]_vars
    /\ [](\A c \in db.clients :
             /\ CommittedFor(c.Address) # <<>>
             /\ c.LastChallengeTime =
                   CommittedFor(c.Address)[Len(CommittedFor(c.Address))].timestamp)

\* an event of a known client was rolled back and the row keeps the time of
\* the event committed before it
C26_Witness ==
    /\ Len(log) = 2
    /\ log[1].outcome = "committed"
    /\ log[2].outcome = "rolledback"
    /\ log[1].Address = log[2].Address
    /\ log[1].timestamp < log[2].timestamp
    /\ \E c \in ClientsAt(db, log[1].Address) : c.LastChallengeTime = log[1].timestamp

(***************************************************************************)
(* An epoch endpoint whose schedule shifts: epoch 5 is also reported with  *)
(* a later start and with a shorter duration.                              *)
(***************************************************************************)
ShiftedEpochInfos ==
    [Identifier : {"day"}, Duration : {86400}, CurrentEpoch : {5}, CurrentEpochStart : {2000}]
    \cup [Identifier : {"day"}, Duration : {43200}, CurrentEpoch : {5},
          CurrentEpochStart : {1000}]

\* getCurrentEpoch() returns the shifted schedule (lines 209-214)
FetchShiftedEpoch ==
    /\ pc = "epoch"
    /\ \E e \in ShiftedEpochInfos :
          /\ epochInfo' = e
          /\ idx' = 1
          /\ pc' = "loop"
    /\ UNCHANGED <<started, connVars, failBudget, elemBudget, nElems, msg, ev, storeVars,
                   clock, apiVars>>

ShiftNext ==
    \/ Next
    \/ FetchShiftedEpoch

ShiftSpec == Init /\ [][ShiftNext]_vars

\* the row of the next state that continues row e
SameWindow(e, f) ==
    /\ f.ID = e.ID
    /\ f.ClientAddress = e.ClientAddress
    /\ f.EpochNumber = e.EpochNumber
    /\ f.StartTime = e.StartTime
    /\ f.EndTime = e.EndTime
    /\ f.CreatedAt = e.CreatedAt

EpochIDs(tables) == {e.ID : e \in tables.epoch_earnings}

\* C27: an epoch_earnings row's StartTime and EndTime are fixed when it is
\* created, from the epochInfo then in force (EndTime = CurrentEpochStart +
\* Duration), and no later event for its (client key, epoch number) changes
\* them, even when the endpoint later reports another start or duration for
\* that epoch number: later events change only TotalEarnings and UpdatedAt.
C27_EpochWindowFixedAtCreation ==
    /\ [][\A e \in db.epoch_earnings : \E f \in db'.epoch_earnings : SameWindow(e, f)]_vars
    /\ [][\A f \in db'.epoch_earnings :
             f.ID \notin EpochIDs(db) =>
                /\ f.EpochNumber = epochInfo.CurrentEpoch
                /\ f.StartTime = epochInfo.CurrentEpochStart
                /\ f.EndTime = epochInfo.CurrentEpochStart + epochInfo.Duration]_vars
    /\ [](\A e, f \in db.epoch_earnings : e.ID = f.ID => e = f)

\* a second event was added to a row of epoch 5 while the endpoint reported
\* another window for epoch 5 than the one the row was created with
C27_Witness ==
    /\ pc = "loop"
    /\ Len(log) = 2
    /\ log[1].outcome = "committed"
    /\ log[2].outcome = "committed"
    /\ log[1].key = log[2].key
    /\ log[1].epoch = 5
    /\ log[2].epoch = 5
    /\ epochInfo.CurrentEpoch = 5
    /\ \E e \in EpochsAt(db, log[1].key, 5) :
          /\ e.UpdatedAt > e.CreatedAt
          /\ \/ e.StartTime # epochInfo.CurrentEpochStart
             \/ e.EndTime # epochInfo.CurrentEpochStart + epochInfo.Duration

(***************************************************************************)
(* The query API beside the ingestion: GET /timeframe-earnings, the        *)
(* handler that reads client_earnings with one statement.                  *)
(***************************************************************************)
DiscountedWallet == "7z72VqEfUtccgw4dJWmzEPw9jx8r9EU1yoa8HZJEUmWP"

\* the query parameters of a request: period "" is absent, "x" does not parse
TimeframeRequests == [wallet : {"", "S1", DiscountedWallet}, period : {"", "x"}]

\* time.ParseDuration(periodStr) returns an error
BadPeriod(periodStr) == periodStr \notin {"1h"}

\* SELECT COALESCE(SUM(earnings), 0) FROM client_earnings WHERE
\* client_address = ? AND timestamp BETWEEN ? AND ?
RECURSIVE SumRows(_)
SumRows(rows) ==
    IF rows = {} THEN 0
    ELSE LET r == CHOOSE q \in rows : TRUE
         IN  Wrap64(r.Earnings + SumRows(rows \ {r}))

EarningsBetween(tables, wallet, startTime, endTime) ==
    SumRows({r \in tables.client_earnings :
                /\ r.ClientAddress = wallet
                /\ r.Timestamp >= startTime
                /\ r.Timestamp <= endTime})

\* float64(result.TotalEarnings) / 1e6, times 0.85 for one wallet; the value
\* is kept in hundredths of a millionth
EstimatedEarning(wallet, total) == IF wallet = DiscountedWallet THEN total * 85 ELSE total * 100

TimeframeAnswer(code, wallet, total) ==
    [code |-> code, wallet |-> wallet, estimatedEarning |-> total]

\* getTimeframeEarnings, from the request to the c.JSON that answers it.  How
\* many of the events fall into the period is the environment's choice: the
\* start of the window is any time up to now
getTimeframeEarnings ==
    /\ \E r \in TimeframeRequests :
          /\ request' = r
          /\ LET periodStr == IF r.period = "" THEN "1h" ELSE r.period IN
             \/ /\ r.wallet = ""
                /\ response' = TimeframeAnswer(400, "", 0)
                /\ UNCHANGED failBudget
             \/ /\ r.wallet # ""
                /\ BadPeriod(periodStr)
                /\ response' = TimeframeAnswer(400, "", 0)
                /\ UNCHANGED failBudget
             \/ /\ r.wallet # ""
                /\ ~BadPeriod(periodStr)
                /\ \/ /\ \E startTime \in 0..clock :
                            response' = TimeframeAnswer(200, r.wallet,
                                EstimatedEarning(r.wallet,
                                    EarningsBetween(db, r.wallet, startTime, clock)))
                      /\ UNCHANGED failBudget
                   \/ /\ failBudget > 0
                      /\ failBudget' = failBudget - 1
                      /\ response' = TimeframeAnswer(500, "", 0)
    /\ UNCHANGED <<pc, started, connVars, msgVars, storeVars, clock>>

ServeNext ==
    \/ Next
    \/ getTimeframeEarnings

\* the process with the router serving, in an environment that fails at most
\* ServeFailures times
ServeFailures == MaxFailures - 1
ServeInit == InitWith(ServeFailures, MaxElems)

ServeSpec == ServeInit /\ [][ServeNext]_vars

\* C28: client_earnings is append-only: each committed event adds exactly one
\* row, an event that is rolled back or an element that is skipped adds none,
\* and no step of the ingestion or of the query API changes or deletes a row
\* that exists.
C28_EarningsAppendOnly ==
    /\ [][/\ db.client_earnings \subseteq db'.client_earnings
          /\ Cardinality(db'.client_earnings \ db.client_earnings) =
                IF Commits THEN 1 ELSE 0]_vars
    /\ [](/\ Cardinality(db.client_earnings) = Len(Committed)
          /\ \A r, q \in db.client_earnings : r.ID = q.ID => r = q)

\* the handler has answered with the one row there is, after an event was
\* committed and the next one rolled back
C28_Witness ==
    /\ Len(log) = 2
    /\ log[1].outcome = "committed"
    /\ log[2].outcome = "rolledback"
    /\ Cardinality(db.client_earnings) = 1
    /\ request.wallet = "S1"
    /\ response.code = 200
    /\ response.estimatedEarning # 0

(***************************************************************************)
(* The epoch of a message.                                                 *)
(***************************************************************************)
\* processMessage is past its shape checks
InMessage == pc \in {"epoch", "loop", "tx", "return"} /\ msg.shape = "ok"

\* C29: the epoch is fetched exactly once per message that carries a
\* client_data list, before any of its events is applied, and every event of
\* the message is bucketed into that epoch, whatever the chain's epoch has
\* become in the meantime.
C29_OneEpochPerMessage ==
    /\ [][ReadsMessage /\ msg'.shape = "ok" => pc' = "epoch" /\ epochInfo' = NoEpoch]_vars
    /\ [][pc' = "epoch" => pc = "read"]_vars
    /\ [][epochInfo' # epochInfo =>
             \/ pc = "epoch" /\ epochInfo = NoEpoch /\ pc' = "loop" /\ idx' = 1
             \/ pc = "return" /\ epochInfo' = NoEpoch]_vars
    /\ [](pc = "tx" => epochInfo # NoEpoch)
    /\ [](InMessage => \A k \in DOMAIN EntriesOfMessage :
                          EntriesOfMessage[k].epoch = epochInfo.CurrentEpoch)
    /\ [][Commits =>
             /\ Cardinality(db'.epoch_earnings \ db.epoch_earnings) = 1
             /\ \A r \in db'.epoch_earnings \ db.epoch_earnings :
                   r.EpochNumber = epochInfo.CurrentEpoch]_vars

\* both events of one message were committed into epoch 6
C29_Witness ==
    /\ pc = "return"
    /\ Len(msg.clientData) = 2
    /\ epochInfo.CurrentEpoch = 6
    /\ Len(log) = 2
    /\ \A k \in DOMAIN log : log[k].outcome = "committed" /\ log[k].epoch = 6
    /\ \A r \in db.epoch_earnings : r.EpochNumber = 6

(***************************************************************************)
(* The transactions of the ingestion.                                      *)
(***************************************************************************)
\* br.DB.Begin()
Begins == pc = "loop" /\ pc' = "tx"

\* C30: the ingestion uses one transaction per event: at most one is open at
\* any time, every transaction begun is committed or rolled back before the
\* next element is processed, and none is open when the next read is issued
\* or while reconnecting.
C30_OneTransactionPerEvent ==
    /\ [](tx.active <=> pc = "tx")
    /\ [](pc \in {"read", "reconnect", "dial", "subscribe", "subscribed"} => tx = NoTx)
    /\ [][Begins => ~tx.active /\ tx'.active /\ Len(log') = Len(log)]_vars
    /\ [][tx.active => ~tx'.active /\ Len(log') = Len(log) + 1 /\ pc' = "loop"]_vars
    /\ [][idx' # idx => ~tx'.active]_vars

\* the reader is reconnecting after an event was rolled back and the one
\* after it committed
C30_Witness ==
    /\ pc = "reconnect"
    /\ Len(log) = 2
    /\ log[1].outcome = "rolledback"
    /\ log[2].outcome = "committed"
    /\ tx = NoTx

(***************************************************************************)
(* getCurrentEpoch (lines 109-176): the answer of the epoch endpoint and   *)
(* its decoding.  Strings are sequences of characters; a duration is       *)
(* [sec, nsec], the whole seconds and the nanoseconds beyond them, and its *)
(* range is that of the scaled int64, counted in seconds.                  *)
(***************************************************************************)
DurationErr == [err |-> TRUE, sec |-> 0, nsec |-> 0]

ZeroDuration == [sec |-> 0, nsec |-> 0]

\* the sum of two durations, the nanoseconds carried into the seconds
DurAdd(x, y) ==
    LET n == x.nsec + y.nsec
    IN  [sec |-> x.sec + y.sec + (n \div 1000000000), nsec |-> n % 1000000000]

\* time.leadingInt: the leading digits of s and what follows them
RECURSIVE leadingInt(_, _)
leadingInt(s, x) ==
    IF s = <<>> \/ ~IsDigit(s[1]) THEN [x |-> x, rem |-> s, err |-> FALSE]
    ELSE IF x > (MaxInt64 + 1) \div 10 THEN [x |-> 0, rem |-> s, err |-> TRUE]
    ELSE IF x * 10 + DigitVal(s[1]) > MaxInt64 + 1 THEN [x |-> 0, rem |-> s, err |-> TRUE]
    ELSE leadingInt(Tail(s), x * 10 + DigitVal(s[1]))

\* time.leadingFraction: the digits after the point; digits that no longer
\* fit are read and dropped
RECURSIVE leadingFraction(_, _, _, _)
leadingFraction(s, x, scale, overflow) ==
    IF s = <<>> \/ ~IsDigit(s[1]) THEN [x |-> x, scale |-> scale, rem |-> s]
    ELSE IF overflow \/ x > MaxInt64 \div 10
         THEN leadingFraction(Tail(s), x, scale, TRUE)
    ELSE IF x * 10 + DigitVal(s[1]) > MaxInt64 + 1
         THEN leadingFraction(Tail(s), x, scale, TRUE)
    ELSE leadingFraction(Tail(s), x * 10 + DigitVal(s[1]), scale * 10, FALSE)

\* the length of the unit: the characters up to the next digit or point
RECURSIVE UnitLen(_)
UnitLen(s) ==
    IF s = <<>> \/ s[1] = "." \/ IsDigit(s[1]) THEN 0 ELSE 1 + UnitLen(Tail(s))

\* time.unitMap: a unit is a number of seconds, or of nanoseconds below one
DurationUnit(u) ==
    CASE u = <<"h">> -> [ok |-> TRUE, secs |-> 3600, nanos |-> 0]
      [] u = <<"m">> -> [ok |-> TRUE, secs |-> 60, nanos |-> 0]
      [] u = <<"s">> -> [ok |-> TRUE, secs |-> 1, nanos |-> 0]
      [] u = <<"m", "s">> -> [ok |-> TRUE, secs |-> 0, nanos |-> 1000000]
      [] u = <<"u", "s">> -> [ok |-> TRUE, secs |-> 0, nanos |-> 1000]
      [] u = <<"n", "s">> -> [ok |-> TRUE, secs |-> 0, nanos |-> 1]
      [] OTHER -> [ok |-> FALSE, secs |-> 0, nanos |-> 0]

\* v units
WholeUnits(v, unit) ==
    IF unit.secs > 0 THEN [sec |-> v * unit.secs, nsec |-> 0]
    ELSE LET perSec == 1000000000 \div unit.nanos
         IN  [sec |-> v \div perSec, nsec |-> (v % perSec) * unit.nanos]

\* k times a duration below one second, for k up to 3600
SecondsTimes(nsec, k) ==
    LET a == nsec \div 1000000
        b == (nsec % 1000000) \div 1000
        c == nsec % 1000
        A == [sec |-> (k * a) \div 1000, nsec |-> ((k * a) % 1000) * 1000000]
        B == [sec |-> (k * b) \div 1000000, nsec |-> ((k * b) % 1000000) * 1000]
        C == [sec |-> 0, nsec |-> k * c]
    IN  DurAdd(DurAdd(A, B), C)

\* f / scale units, cut to whole nanoseconds
FractionUnits(f, scale, unit) ==
    LET n == IF unit.secs > 0 THEN 1000000000 ELSE unit.nanos
        part == IF n >= scale THEN f * (n \div scale) ELSE f \div (scale \div n)
    IN  IF unit.secs > 1 THEN SecondsTimes(part, unit.secs)
        ELSE [sec |-> 0, nsec |-> part]

\* more than the largest magnitude a Duration holds
TooLong(d) == d.sec > MaxInt64 + 1 \/ (d.sec = MaxInt64 + 1 /\ d.nsec > 0)

\* the loop of time.ParseDuration, one number and its unit at a time: d is the
\* duration read so far
RECURSIVE ParseDurationLoop(_, _)

\* the value of the number, x whole units and f / scale of one, added to d;
\* the loop goes on with rest
AddUnits(d, x, f, scale, unit, rest) ==
    IF ~unit.ok THEN DurationErr
    ELSE IF unit.secs > 0 /\ x > (MaxInt64 + 1) \div unit.secs THEN DurationErr
    ELSE IF TooLong(DurAdd(WholeUnits(x, unit),
                           IF f > 0 THEN FractionUnits(f, scale, unit) ELSE ZeroDuration))
    THEN DurationErr
    ELSE IF TooLong(DurAdd(d, DurAdd(WholeUnits(x, unit),
                                     IF f > 0 THEN FractionUnits(f, scale, unit)
                                     ELSE ZeroDuration)))
    THEN DurationErr
    ELSE ParseDurationLoop(rest,
             DurAdd(d, DurAdd(WholeUnits(x, unit),
                              IF f > 0 THEN FractionUnits(f, scale, unit)
                              ELSE ZeroDuration)))

\* the unit that follows the number: pre and post tell whether digits were
\* read before and after the point
ReadUnit(d, x, f, scale, pre, post, s) ==
    IF ~pre /\ ~post THEN DurationErr
    ELSE IF UnitLen(s) = 0 THEN DurationErr
    ELSE AddUnits(d, x, f, scale, DurationUnit(SubSeq(s, 1, UnitLen(s))),
                  SubSeq(s, UnitLen(s) + 1, Len(s)))

\* the fraction that may follow the leading digits
ReadFraction(d, li, pre) ==
    IF li.err THEN DurationErr
    ELSE IF li.rem # <<>> /\ li.rem[1] = "."
    THEN ReadUnit(d, li.x, leadingFraction(Tail(li.rem), 0, 1, FALSE).x,
                  leadingFraction(Tail(li.rem), 0, 1, FALSE).scale, pre,
                  Len(leadingFraction(Tail(li.rem), 0, 1, FALSE).rem) # Len(Tail(li.rem)),
                  leadingFraction(Tail(li.rem), 0, 1, FALSE).rem)
    ELSE ReadUnit(d, li.x, 0, 1, pre, FALSE, li.rem)

ParseDurationLoop(s, d) ==
    IF s = <<>> THEN [err |-> FALSE, sec |-> d.sec, nsec |-> d.nsec]
    ELSE IF ~(s[1] = "." \/ IsDigit(s[1])) THEN DurationErr
    ELSE ReadFraction(d, leadingInt(s, 0), Len(leadingInt(s, 0).rem) # Len(s))

\* time.ParseDuration: [-+]?([0-9]*(\.[0-9]*)?[a-z]+)+, or "0"
ParseDuration(s) ==
    LET signed == s # <<>> /\ (s[1] = "-" \/ s[1] = "+")
        neg == s # <<>> /\ s[1] = "-"
        body == IF signed THEN Tail(s) ELSE s
        r == ParseDurationLoop(body, ZeroDuration)
    IN  IF body = <<"0">> THEN [err |-> FALSE, sec |-> 0, nsec |-> 0]
        ELSE IF body = <<>> THEN DurationErr
        ELSE IF r.err THEN DurationErr
        ELSE IF neg THEN [err |-> FALSE, sec |-> 0 - r.sec, nsec |-> 0 - r.nsec]
        ELSE IF r.sec > MaxInt64 THEN DurationErr
        ELSE r

\* time.Parse(time.RFC3339Nano, s): a timestamp string is laid out as
\* RFC 3339 or not, and names an instant if it is
ParseTime(s) ==
    IF s.rfc3339 THEN [err |-> FALSE, val |-> s.instant] ELSE [err |-> TRUE, val |-> 0]

\* json.NewDecoder(resp.Body).Decode(&raw), lines 143-145: the decoder reads
\* the first JSON value of the body and leaves what follows it unread
DecodeEpoch(body) ==
    CASE body.syntax = "value" -> [err |-> FALSE, raw |-> body.epoch]
      [] body.syntax = "value_then_text" -> [err |-> FALSE, raw |-> body.epoch]
      [] body.syntax = "mistyped" -> [err |-> TRUE, raw |-> body.epoch]
      [] OTHER -> [err |-> TRUE, raw |-> body.epoch]

EpochErr == [err |-> TRUE, epochInfo |-> NoEpoch]

StatusOK == 200

\* getCurrentEpoch, in the order of its checks
getCurrentEpoch(resp) ==
    LET dec == DecodeEpoch(resp.body)
        epochNum == ParseInt(dec.raw.current_epoch)
        startTime == ParseTime(dec.raw.current_epoch_start_time)
        dur == ParseDuration(dec.raw.duration)
    IN  IF resp.transportError THEN EpochErr
        ELSE IF resp.StatusCode # StatusOK THEN EpochErr
        ELSE IF dec.err THEN EpochErr
        ELSE IF epochNum.err THEN EpochErr
        ELSE IF startTime.err THEN EpochErr
        ELSE IF ~HasSuffix(dec.raw.duration, <<"s">>) THEN EpochErr
        ELSE IF dur.err THEN EpochErr
        ELSE [err |-> FALSE,
              epochInfo |-> [Identifier |-> dec.raw.identifier, Duration |-> dur.sec,
                             DurationNanos |-> dur.nsec, CurrentEpoch |-> epochNum.val,
                             CurrentEpochStart |-> startTime.val]]

\* what the endpoint may send
DurationChars == {"6", "0", ".", "s", "m", "-"}

SecondCounts == {0, 6, 60, 66, 600, 86400}

DurationStrings ==
    SeqsUpTo(DurationChars, MaxBodyLen)
      \cup {Append(ToDigits(n), "s") : n \in SecondCounts}
      \cup {ToDigits(86400), <<"1", "h">>, <<"1", ".", "5", "h">>, <<"9", "0", "m", "s">>,
            <<"5", "u", "s">>, <<"7", "n", "s">>, <<"1", "m", "3", "0", "s">>,
            <<"6", "x", "s">>, Append(ToDigits(MaxInt64), "s"),
            ToDigits(MaxInt64) \o <<"0", "s">>}

CounterStrings == {<<>>, ToDigits(5), ToDigits(33), <<"+", "6">>, <<"3", "3", "x">>}

TimeStrings == {[rfc3339 |-> TRUE, instant |-> 1000], [rfc3339 |-> FALSE, instant |-> 0]}

\* the bodies: every duration string in a body that is otherwise well formed,
\* and every combination of the other fields with a few durations
EpochBodies ==
    [syntax : {"value", "value_then_text"},
     epoch : [identifier : {"day"}, current_epoch : {ToDigits(5)},
              current_epoch_start_time : {[rfc3339 |-> TRUE, instant |-> 1000]},
              duration : DurationStrings]]
      \cup [syntax : {"value", "value_then_text", "text", "mistyped"},
            epoch : [identifier : {"day"}, current_epoch : CounterStrings,
                     current_epoch_start_time : TimeStrings,
                     duration : {Append(ToDigits(86400), "s"), ToDigits(86400),
                                 <<"6", "m">>}]]

EpochResponses ==
    [transportError : {FALSE}, StatusCode : {StatusOK, 204, 500}, body : EpochBodies]
      \cup [transportError : {TRUE}, StatusCode : {0},
            body : [syntax : {"text"},
                    epoch : [identifier : {""}, current_epoch : {<<>>},
                             current_epoch_start_time : {[rfc3339 |-> FALSE, instant |-> 0]},
                             duration : {<<>>}]]]

\* one call of getCurrentEpoch on one answer of the endpoint; response holds
\* what http.Get returned
EpochInit ==
    /\ pc = "epoch"
    /\ response \in EpochResponses
    /\ msg = [shape |-> "ok", clientData |-> <<Payload("A1", <<>>, "PK1", "")>>,
              solana |-> NoList]
    /\ started = TRUE
    /\ conns = <<>>
    /\ conn = 0
    /\ brConn = 0
    /\ failBudget = 0
    /\ elemBudget = 0
    /\ nElems = 1
    /\ epochInfo = NoEpoch
    /\ idx = 0
    /\ ev = NoEv
    /\ tx = NoTx
    /\ db = EmptyTables
    /\ clock = 1
    /\ log = <<>>
    /\ request = NoRequest

\* lines 209-214 of processMessage: epochInfo, err := getCurrentEpoch()
FetchEpochFrom ==
    /\ pc = "epoch"
    /\ LET r == getCurrentEpoch(response)
       IN  /\ epochInfo' = r.epochInfo
           /\ pc' = IF r.err THEN AfterEpochError ELSE "loop"
           /\ idx' = IF r.err THEN idx ELSE 1
    /\ UNCHANGED <<started, connVars, failBudget, elemBudget, nElems, msg, ev, storeVars,
                   clock, apiVars>>

EpochSpec == EpochInit /\ [][FetchEpochFrom]_vars

Fetched == pc # "epoch"

EpochFailed == pc = AfterEpochError /\ epochInfo = NoEpoch

Body == response.body

\* the body is one JSON value and nothing else
ValidJSON == Body.syntax \in {"value", "mistyped"}

SuccessStatus == response.StatusCode \in 200..299

\* C31: getCurrentEpoch fails, with no epoch window, whenever the status is
\* not a success, the body is not valid JSON, the duration lacks the "s"
\* suffix, or the counter, the start time or the duration does not parse; and
\* when it succeeds, a duration "<N>s" gives N seconds and the epoch number
\* and start time are the body's.
C31_EpochFetchChecked ==
    Fetched =>
       /\ (\/ response.transportError
           \/ ~SuccessStatus
           \/ ~ValidJSON
           \/ ~HasSuffix(Body.epoch.duration, <<"s">>)
           \/ ParseInt(Body.epoch.current_epoch).err
           \/ ~Body.epoch.current_epoch_start_time.rfc3339
           \/ ParseDuration(Body.epoch.duration).err) => EpochFailed
       /\ ~EpochFailed =>
             /\ \A n \in SecondCounts :
                   Body.epoch.duration = Append(ToDigits(n), "s") =>
                      epochInfo.Duration = n /\ epochInfo.DurationNanos = 0
             /\ epochInfo.CurrentEpoch = ParseInt(Body.epoch.current_epoch).val
             /\ epochInfo.CurrentEpochStart = Body.epoch.current_epoch_start_time.instant

\* C31 for the bodies the decoder reads to their end
C31_WholeBodiesChecked ==
    (Fetched /\ Body.syntax # "value_then_text") => C31_EpochFetchChecked

\* text after the JSON value, and a window all the same
C31_TrailingTextAccepted ==
    /\ Fetched
    /\ Body.syntax = "value_then_text"
    /\ ~EpochFailed
    /\ epochInfo.Duration = 86400

(***************************************************************************)
(* The query API beside the ingestion: the handlers setupRouter registers, *)
(* each from its request to the c.JSON that answers it.  A handler with    *)
(* one statement is one step; getClientEarnings reads twice and is two.    *)
(* Requests are taken one at a time; the ingestion runs beside them.       *)
(***************************************************************************)
DefaultLimit == 7

\* strconv.Atoi
Atoi(s) == ParseInt(s)

\* the limit parameter: absent, not a number, a number
LimitStrings == {<<>>, <<"x">>, <<"1">>}

\* the period parameter: absent, not a duration, a duration
PeriodStrings == {<<>>, <<"x">>, <<"2", "s">>}

DefaultPeriod == <<"1", "h">>

\* db.Where("client_address = ?", wallet)
EpochsOfWallet(tables, wallet) == {e \in tables.epoch_earnings : e.ClientAddress = wallet}

\* Order("epoch_number DESC"); rows of one epoch number in the order of their ids
RECURSIVE OrderByEpochDesc(_)
OrderByEpochDesc(rows) ==
    IF rows = {} THEN <<>>
    ELSE LET first == CHOOSE r \in rows : \A q \in rows :
                         \/ q.EpochNumber < r.EpochNumber
                         \/ q.EpochNumber = r.EpochNumber /\ q.ID >= r.ID
         IN  <<first>> \o OrderByEpochDesc(rows \ {first})

\* Order("epoch_number ASC")
RECURSIVE OrderByEpochAsc(_)
OrderByEpochAsc(rows) ==
    IF rows = {} THEN <<>>
    ELSE LET first == CHOOSE r \in rows : \A q \in rows :
                         \/ q.EpochNumber > r.EpochNumber
                         \/ q.EpochNumber = r.EpochNumber /\ q.ID >= r.ID
         IN  <<first>> \o OrderByEpochAsc(rows \ {first})

\* Limit(limitVal), for a positive limit
Limit(rows, limitVal) == IF Len(rows) > limitVal THEN SubSeq(rows, 1, limitVal) ELSE rows

\* the JSON built from the rows found
RewardResults(epochs) ==
    [k \in DOMAIN epochs |->
        [epochNumber |-> epochs[k].EpochNumber, startTime |-> epochs[k].StartTime,
         endTime |-> epochs[k].EndTime, totalEarnings |-> epochs[k].TotalEarnings]]

RewardsAnswer(code, results) == [code |-> code, results |-> results]

\* no handler is between its two reads
HandlerIdle == ~("stage" \in DOMAIN request /\ request.stage = "client")

\* lines 233-240: the limit the query runs with
LimitVal(limit) ==
    LET limitStr == IF limit = <<>> THEN ToDigits(DefaultLimit) ELSE limit
    IN  IF Atoi(limitStr).err THEN DefaultLimit ELSE Atoi(limitStr).val

\* a slip: the handler deletes the rows it returns
GetLatestRewards_mutDelete ==
    /\ HandlerIdle
    /\ \E wallet \in {"", "S1"}, limit \in LimitStrings :
          /\ request' = [handler |-> "latest-rewards", wallet |-> wallet, limit |-> limit]
          /\ response' = RewardsAnswer(200, RewardResults(OrderByEpochDesc(EpochsOfWallet(db, wallet))))
          /\ db' = [db EXCEPT !.epoch_earnings = @ \ EpochsOfWallet(db, wallet)]
    /\ UNCHANGED <<pc, started, connVars, failBudget, msgVars, tx, log, clock>>

\* GetLatestRewards: GET /api/v1/miner/latest-rewards?wallet=&limit=
GetLatestRewards ==
    /\ HandlerIdle
    /\ \E wallet \in {"", "S1"}, limit \in LimitStrings :
          /\ request' = [handler |-> "latest-rewards", wallet |-> wallet, limit |-> limit]
          /\ \/ /\ wallet = ""
                /\ response' = RewardsAnswer(400, <<>>)
                /\ UNCHANGED failBudget
             \/ /\ wallet # ""
                /\ response' = RewardsAnswer(200,
                      RewardResults(Limit(OrderByEpochDesc(EpochsOfWallet(db, wallet)),
                                          LimitVal(limit))))
                /\ UNCHANGED failBudget
             \/ /\ wallet # ""
                /\ failBudget > 0
                /\ failBudget' = failBudget - 1
                /\ response' = RewardsAnswer(500, <<>>)
    /\ UNCHANGED <<pc, started, connVars, msgVars, storeVars, clock>>

\* GetAllRewards: GET /api/v1/miner/all-rewards?wallet=
GetAllRewards ==
    /\ HandlerIdle
    /\ \E wallet \in {"", "S1"} :
          /\ request' = [handler |-> "all-rewards", wallet |-> wallet]
          /\ \/ /\ wallet = ""
                /\ response' = RewardsAnswer(400, <<>>)
                /\ UNCHANGED failBudget
             \/ /\ wallet # ""
                /\ response' = RewardsAnswer(200,
                      RewardResults(OrderByEpochAsc(EpochsOfWallet(db, wallet))))
                /\ UNCHANGED failBudget
             \/ /\ wallet # ""
                /\ failBudget > 0
                /\ failBudget' = failBudget - 1
                /\ response' = RewardsAnswer(500, <<>>)
    /\ UNCHANGED <<pc, started, connVars, msgVars, storeVars, clock>>

\* GetMinerStatus beside the ingestion: GET /api/v1/miner/status?wallet=
ServeMinerStatus ==
    /\ HandlerIdle
    /\ \E wallet \in {"", "S1"} :
          /\ request' = [handler |-> "status", wallet |-> wallet]
          /\ \/ /\ wallet = ""
                /\ response' = Answer(400, "", <<>>)
                /\ UNCHANGED failBudget
             \/ /\ wallet # ""
                /\ response' = StatusAnswer(db, wallet, clock)
                /\ UNCHANGED failBudget
             \/ /\ wallet # ""
                /\ failBudget > 0
                /\ failBudget' = failBudget - 1
                /\ response' = Answer(500, "", <<>>)
    /\ UNCHANGED <<pc, started, connVars, msgVars, storeVars, clock>>

ClientAnswer(code, client, earningsOverPeriod) ==
    [code |-> code, address |-> client.Address, pubkey |-> client.PubKey,
     total_lifetime_earnings |-> client.TotalLifetimeEarnings,
     earnings_over_period |-> earningsOverPeriod]

NoClient ==
    [Address |-> "", PubKey |-> "", SolanaAddress |-> "", TotalLifetimeEarnings |-> 0,
     LastChallengeTime |-> ZeroTime]

\* getClientEarnings up to its second read (lines 502-530): the clients row
\* is read with db.First and the period is parsed
ClientEarningsLookup ==
    /\ HandlerIdle
    /\ \E address \in Addresses, period \in PeriodStrings :
          LET found == ClientsAt(db, address)
              duration == ParseDuration(IF period = <<>> THEN DefaultPeriod ELSE period)
              with(stage, client) == [handler |-> "client", address |-> address,
                                      period |-> period, stage |-> stage, client |-> client]
          IN  \/ /\ found = {}
                 /\ request' = with("answered", NoClient)
                 /\ response' = ClientAnswer(404, NoClient, 0)
                 /\ UNCHANGED failBudget
              \/ /\ failBudget > 0
                 /\ failBudget' = failBudget - 1
                 /\ request' = with("answered", NoClient)
                 /\ response' = ClientAnswer(500, NoClient, 0)
              \/ /\ found # {}
                 /\ duration.err
                 /\ request' = with("answered", FirstByAddress(found))
                 /\ response' = ClientAnswer(400, NoClient, 0)
                 /\ UNCHANGED failBudget
              \/ /\ found # {}
                 /\ ~duration.err
                 /\ request' = with("client", FirstByAddress(found))
                 /\ response' = NoResponse
                 /\ UNCHANGED failBudget
    /\ UNCHANGED <<pc, started, connVars, msgVars, storeVars, clock>>

\* getClientEarnings from its second read (lines 532-542): the sum over
\* client_earnings, whose error is not looked at, and the answer
ClientEarningsSum ==
    /\ ~HandlerIdle
    /\ request' = [request EXCEPT !.stage = "answered"]
    /\ LET duration ==
              ParseDuration(IF request.period = <<>> THEN DefaultPeriod ELSE request.period)
           endTime == clock
           startTime == endTime - duration.sec
       IN  \/ /\ response' = ClientAnswer(200, request.client,
                     EarningsBetween(db, request.client.SolanaAddress, startTime, endTime))
              /\ UNCHANGED failBudget
           \/ /\ failBudget > 0
              /\ failBudget' = failBudget - 1
              /\ response' = ClientAnswer(200, request.client, 0)
    /\ UNCHANGED <<pc, started, connVars, msgVars, storeVars, clock>>

ApiNext ==
    \/ Next
    \/ HandlerIdle /\ getTimeframeEarnings
    \/ GetLatestRewards
    \/ GetAllRewards
    \/ ServeMinerStatus
    \/ ClientEarningsLookup
    \/ ClientEarningsSum

\* the router serving beside an ingestion that reads one element less
ApiInit == InitWith(ServeFailures, MaxElems - 1)

ApiSpec == ApiInit /\ [][ApiNext]_vars

\* GET /client/:address alone beside the whole ingestion
ClientNext ==
    \/ Next
    \/ ClientEarningsLookup
    \/ ClientEarningsSum

ClientSpec == ServeInit /\ [][ClientNext]_vars

\* a step of a handler: a request is taken or an answer is written
HandlerStep == request' # request \/ response' # response

\* C32: the read loop is the only writer: no step of a query API handler
\* inserts, updates or deletes a row of clients, client_earnings or
\* epoch_earnings, however the handlers interleave with the ingestion, and
\* the store changes only where the ingestion commits an event.
C32_HandlersOnlyRead ==
    /\ [][HandlerStep => db' = db /\ tx' = tx /\ log' = log]_vars
    /\ [][db' # db => Commits /\ ~HandlerStep]_vars

\* the rewards handler has answered with the epoch row the ingestion committed
C32_Witness ==
    /\ Len(Committed) = 1
    /\ "handler" \in DOMAIN request
    /\ request.handler = "latest-rewards"
    /\ response.code = 200
    /\ Len(response.results) = 1
    /\ Cardinality(db.epoch_earnings) = 1

\* a handler has written its answer
HandlerAnswered == response.code # 0

\* the request in hand carries a query parameter that does not parse or lacks
\* the wallet it must name
Malformed ==
    \/ /\ "handler" \in DOMAIN request
       /\ request.handler \in {"latest-rewards", "all-rewards", "status"}
       /\ request.wallet = ""
    \/ /\ "handler" \in DOMAIN request
       /\ request.handler = "latest-rewards"
       /\ request.limit # <<>>
       /\ Atoi(request.limit).err
    \/ /\ "handler" \in DOMAIN request
       /\ request.handler = "client"
       /\ request.period # <<>>
       /\ ParseDuration(request.period).err
    \/ /\ "handler" \notin DOMAIN request
       /\ "period" \in DOMAIN request
       /\ request.wallet = "" \/ (request.period # "" /\ BadPeriod(request.period))

\* C33: a request with a malformed query parameter (missing wallet,
\* unparseable period, non-numeric limit) is answered with a client error,
\* never with a success computed from a default put in its place.
C33_MalformedIsClientError ==
    (HandlerAnswered /\ Malformed) => response.code \in 400..499

\* limit=x answered 200 with the rows the default limit selects
C33_DefaultSubstituted ==
    /\ "handler" \in DOMAIN request
    /\ request.handler = "latest-rewards"
    /\ request.limit = <<"x">>
    /\ response.code = 200
    /\ Len(response.results) = 1

\* C38: the total_lifetime_earnings and the earnings_over_period of one
\* client-earnings answer come from the same committed store: no ingestion
\* commit takes effect between the handler's read of the clients row and its
\* read of the earnings sum, and the total answered is the total stored when
\* the sum is read.
C38_OneStoreState ==
    /\ [][~HandlerIdle => db' = db]_vars
    /\ [][~HandlerIdle /\ response'.code = 200 =>
             response'.total_lifetime_earnings =
                FirstByAddress(ClientsAt(db, request.address)).TotalLifetimeEarnings]_vars

\* an answer no committed store gives: the total before the second event and
\* a sum that includes it
C38_TornAnswer ==
    /\ ~HandlerIdle \/ request # NoRequest
    /\ response.code = 200
    /\ Len(Committed) = 2
    /\ response.total_lifetime_earnings = MaxInt64
    /\ response.earnings_over_period = MaxInt64 - 5

(***************************************************************************)
(* The transports of the reader.                                           *)
(***************************************************************************)
\* the transports dialled and not closed
OpenConns == {k \in DOMAIN conns : conns[k].open}

\* C34: at every moment at most one transport connection is open: when a read
\* has failed and a reconnect succeeds, the connection it supersedes has been
\* closed, so the open connections do not grow with the reconnects.
C34_AtMostOneOpen ==
    /\ Cardinality(OpenConns) <= 1
    /\ pc = "read" => OpenConns = {brConn}

\* two reconnects, three transports open
C34_ThreeOpen ==
    /\ pc = "read"
    /\ Cardinality(OpenConns) = 3

\* C39: a failed connect attempt leaves br.Conn unchanged: br.Conn is replaced
\* only by a Connect whose dial and whose subscription write both succeeded;
\* and the read loop goes back to reading only from a Connect that succeeded,
\* on the connection that Connect subscribed.
C39_ConnReplacedOnSuccessOnly ==
    /\ [][ConnectFails => brConn' = brConn /\ pc' \in {"reconnect", "exited"}]_vars
    /\ [][brConn' # brConn =>
             /\ pc = "subscribe" /\ pc' = "subscribed"
             /\ brConn' = conn
             /\ conns'[brConn'].open
             /\ conns'[brConn'].subs = 1]_vars
    /\ [][(pc' = "read" /\ pc \in {"init", "dial", "subscribe", "subscribed", "reconnect"}) =>
             /\ pc = "subscribed"
             /\ brConn = Len(conns)
             /\ conns[brConn].subs = 1]_vars
    /\ [][pc = "reconnect" => pc' = "dial" /\ brConn' = brConn]_vars

\* the reader reads again on the third transport, after a read error and a
\* reconnect whose subscription write failed
C39_Witness ==
    /\ pc = "read"
    /\ Len(conns) = 3
    /\ brConn = 3
    /\ conns[2].subs = 0
    /\ ~conns[2].open
    /\ conns[3].subs = 1

(***************************************************************************)
(* The key of the earnings rows, and the accumulators.                     *)
(***************************************************************************)
\* C35: for every committed event, the ClientEarning row and the epoch row it
\* writes carry the alternate address resolved for that event (the embedded
\* value, else the positional one), the value written to the client's
\* SolanaAddress, so a query by the client's stored SolanaAddress finds all
\* of the client's earnings and epoch rows.
C35_RowsKeyedByResolvedAddress ==
    /\ [][Commits =>
             /\ \A r \in db'.client_earnings \ db.client_earnings :
                   r.ClientAddress = ev.solanaAddress
             /\ \A r \in db'.epoch_earnings \ db.epoch_earnings :
                   r.ClientAddress = ev.solanaAddress]_vars
    /\ [](\A c \in db.clients :
             /\ Cardinality({r \in db.client_earnings : r.ClientAddress = c.SolanaAddress})
                   >= Len(CommittedFor(c.Address))
             /\ \A h \in Entries :
                   h.outcome = "committed" /\ h.Address = c.Address =>
                      EpochsAt(db, c.SolanaAddress, h.epoch) # {})

\* a client stored with an alternate address that none of its rows carries
C35_RowsNotFound ==
    \E c \in db.clients :
        /\ c.SolanaAddress = "S2"
        /\ db.client_earnings # {}
        /\ \A r \in db.client_earnings : r.ClientAddress = ""
        /\ \A r \in db.epoch_earnings : r.ClientAddress = ""

\* the addresses of the committed events added into an epoch row
ContributorsOf(r) ==
    {h.Address : h \in {g \in Entries : /\ g.outcome = "committed"
                                         /\ g.key = r.ClientAddress
                                         /\ g.epoch = r.EpochNumber}}

\* C36: events of two clients with different addresses never accumulate into
\* the same epoch row: the TotalEarnings of each row contains amounts of the
\* events of one client address only, also when the events carry no embedded
\* alternate address.
C36_OneClientPerEpochRow ==
    \A r \in db.epoch_earnings :
        /\ Cardinality(ContributorsOf(r)) <= 1
        /\ \A a \in ContributorsOf(r) :
              r.TotalEarnings = Wrap64(SumAmounts(ClientEpochEvents(a, r.EpochNumber)))

\* one row with the amounts of A1 and of A2
C36_SharedRow ==
    \E r \in db.epoch_earnings :
        /\ ContributorsOf(r) = {"A1", "A2"}
        /\ r.ClientAddress = ""
        /\ r.TotalEarnings = 2000000

\* the total of the clients row at an address, 0 where there is none
TotalAt(tables, address) ==
    IF ClientsAt(tables, address) = {} THEN 0
    ELSE FirstByAddress(ClientsAt(tables, address)).TotalLifetimeEarnings

\* the total of the epoch row at a key and epoch number, 0 where there is none
EpochTotalAt(tables, key, epochNumber) ==
    IF EpochsAt(tables, key, epochNumber) = {} THEN 0
    ELSE FirstByID(EpochsAt(tables, key, epochNumber)).TotalEarnings

\* C37: adding an amount to a client's TotalLifetimeEarnings or to an epoch
\* row's TotalEarnings never overflows the int64: after every committed event
\* the stored total is the total before plus the amount, as numbers, and is
\* not negative; and an earnings numeral beyond the int64 range is
\* normalized to 0.
C37_AccumulatorsNeverOverflow ==
    /\ [][Commits =>
             /\ TotalAt(db', ev.Address) = TotalAt(db, ev.Address) + ev.earningsValue
             /\ TotalAt(db', ev.Address) >= 0
             /\ EpochTotalAt(db', EpochKey(ev), epochInfo.CurrentEpoch) =
                   EpochTotalAt(db, EpochKey(ev), epochInfo.CurrentEpoch) + ev.earningsValue
             /\ EpochTotalAt(db', EpochKey(ev), epochInfo.CurrentEpoch) >= 0]_vars
    /\ [](parseEarnings(ToDigits(MaxInt64) \o <<"0">> \o usoar) = 0)

\* a total below zero made of amounts above zero
C37_Wrapped ==
    \E c \in db.clients :
        /\ c.TotalLifetimeEarnings < 0
        /\ \A h \in Entries : h.amount > 0
        /\ Len(Committed) = 2

====
